---- MODULE Spec2Model ----
(***************************************************************************)
(* A model of the gameroy core: the Board (GameBoy), its Timer and its     *)
(* PPU, as found in core/src/gameboy.rs and core/src/gameboy/ppu.rs.       *)
(*                                                                         *)
(* The whole board is one record, gb, with the fields of struct GameBoy;   *)
(* gb.timer and gb.ppu are the records of struct Timer and struct Ppu.     *)
(* Byte arrays that start zeroed (wram, hram, vram, oam, screen) are kept  *)
(* as finite maps that hold the non-zero bytes only.                       *)
(*                                                                         *)
(* u64 values are unbounded integers; a subtraction that would go below 0, *)
(* or a u8 result above 255, is a panic in a build with overflow checks    *)
(* and wraps in a build without them: debug_build is the build in use, and *)
(* the same holds for debug_assert!.                                       *)
(***************************************************************************)
EXTENDS Integers, Sequences, FiniteSets, TLC

VARIABLES gb, debug_build, obs, jit

vars == <<gb, debug_build, obs, jit>>

(***************************************************************************)
(* Bounds of the model.                                                    *)
(***************************************************************************)
\* the board specification stops ticking at this clock
MaxClock == 1020
\* the timer specification ticks at most this many cycles past its start
MaxTimerCycles == 33
\* the timer specification writes at most this many times to the timer registers
MaxTimerWrites == 3
\* the frame specification enables the LCD at this clock and stops ticking MaxFrameClock cycles later
FrameStart == 8
MaxFrameClock == 136500
\* the DMA specification stops ticking at this clock
MaxDmaClock == 8
\* the burst specification ticks this many cycles
MaxBurstCycles == 1048576
\* the specification of the registers stops ticking at this clock
MaxIoClock == 32

(***************************************************************************)
(* Bytes, bits and arrays.                                                 *)
(***************************************************************************)
Bit(v, n) == (v \div (2 ^ n)) % 2

TestBit(v, n) == Bit(v, n) = 1

SetBit(v, n) == IF TestBit(v, n) THEN v ELSE v + 2 ^ n

\* a | b and a & b on bytes
Or8(a, b) == LET o(n) == IF TestBit(a, n) \/ TestBit(b, n) THEN 2 ^ n ELSE 0 IN o(0) + o(1) + o(2) + o(3) + o(4) + o(5) + o(6) + o(7)

And8(a, b) == LET o(n) == IF TestBit(a, n) /\ TestBit(b, n) THEN 2 ^ n ELSE 0 IN o(0) + o(1) + o(2) + o(3) + o(4) + o(5) + o(6) + o(7)

\* a zeroed array, and the read and write of one element of an array
ZeroArray == [i \in {} |-> 0]

Get(a, i) == IF i \in DOMAIN a THEN a[i] ELSE 0

Put(a, i, v) == IF v = 0 THEN [j \in (DOMAIN a) \ {i} |-> a[j]] ELSE [j \in (DOMAIN a) \cup {i} |-> IF j = i THEN v ELSE a[j]]

(***************************************************************************)
(* Timer                                                                   *)
(***************************************************************************)
Timer_default == [div |-> 0, tima |-> 0, tma |-> 0, tac |-> 0, last_counter_bit |-> FALSE, last_clock_count |-> 0]

\* the divider taps with those of tac & 0b11 = 1 and 2 exchanged
Taps_exchanged == <<9, 5, 3, 7>>

\* the divider taps [9, 3, 5, 7], indexed by tac & 0b11
Taps == <<9, 3, 5, 7>>

\* the counter bit without the enable bit of tac: the tap of div alone
counter_bit_of_div(div, tac) == Bit(div, Taps[(tac % 4) + 1]) = 1

\* ((self.div >> f) as u8 & (self.tac >> 2)) & 0b1 != 0
counter_bit(div, tac) == Bit(div, Taps[(tac % 4) + 1]) = 1 /\ Bit(tac, 2) = 1

\* one pass of the loop of Timer::update where an overflow leaves TIMA at 0, without the reload from TMA
Timer_cycle_no_reload(r) ==
    LET t == r.t
        div == (t.div + 1) % 65536
        bit == counter_bit(div, t.tac)
        falling == t.last_counter_bit /\ ~bit
        o == falling /\ t.tima = 255
        tima == IF ~falling THEN t.tima ELSE IF o THEN 0 ELSE t.tima + 1
    IN [t |-> [t EXCEPT !.div = div, !.tima = tima, !.last_counter_bit = bit], interrupt |-> r.interrupt \/ o]

\* one pass of the loop of Timer::update; r = [t |-> timer, interrupt |-> bool]
Timer_cycle(r) ==
    LET t == r.t
        div == (t.div + 1) % 65536
        bit == counter_bit(div, t.tac)
        falling == t.last_counter_bit /\ ~bit
        o == falling /\ t.tima = 255
        tima == IF ~falling THEN t.tima ELSE IF o THEN t.tma ELSE t.tima + 1
    IN [t |-> [t EXCEPT !.div = div, !.tima = tima, !.last_counter_bit = bit], interrupt |-> r.interrupt \/ o]

\* for _ in self.last_clock_count..clock_count: n passes, the first half of them and then the rest
RECURSIVE Timer_loop(_, _)
Timer_loop(r, n) ==
    IF n <= 0 THEN r
    ELSE IF n = 1 THEN Timer_cycle(r)
    ELSE LET h == Timer_loop(r, n \div 2) IN IF h.interrupt \in BOOLEAN THEN Timer_loop(h, n - (n \div 2)) ELSE h

\* Timer::update without its last line, self.last_clock_count = clock_count
Timer_update_stale(t, clock_count) ==
    LET r == Timer_loop([t |-> t, interrupt |-> FALSE], clock_count - t.last_clock_count)
    IN [t |-> r.t, interrupt |-> r.interrupt]

\* Timer::update: [t |-> the timer afterwards, interrupt |-> the value returned]
Timer_update(t, clock_count) ==
    LET r == Timer_loop([t |-> t, interrupt |-> FALSE], clock_count - t.last_clock_count)
    IN [t |-> [r.t EXCEPT !.last_clock_count = clock_count], interrupt |-> r.interrupt]

read_div(t) == t.div \div 256

write_div(t, div) == [t EXCEPT !.div = 0]

(***************************************************************************)
(* PixelFifo                                                               *)
(***************************************************************************)
PixelFifo_default == [queue |-> [i \in 1..16 |-> 0], head |-> 0, tail |-> 0]

is_empty(f) == f.head = f.tail

clear(f) == [f EXCEPT !.head = 0, !.tail = 0]

\* one pixel pushed at head; r = [f |-> fifo, full |-> head met tail after a push]
push_pixel(r, pixel) ==
    LET head == (r.f.head + 1) % 16
    IN [f |-> [r.f EXCEPT !.queue[r.f.head + 1] = pixel, !.head = head], full |-> r.full \/ head = r.f.tail]

RECURSIVE push_background_loop(_, _, _, _)
push_background_loop(r, tile_low, tile_hight, i) ==
    IF i < 0 THEN r
    ELSE push_background_loop(push_pixel(r, 2 * Bit(tile_hight, i) + Bit(tile_low, i)), tile_low, tile_hight, i - 1)

push_background(f, tile_low, tile_hight) == push_background_loop([f |-> f, full |-> FALSE], tile_low, tile_hight, 7)

\* the closure pixel of push_sprite
sprite_pixel(tile_low, tile_hight, x, palette, background_priority) ==
    2 * Bit(tile_hight, x) + Bit(tile_low, x) + (IF background_priority THEN 8 ELSE 0) + (IF palette THEN 16 ELSE 0)

\* the while loop of push_sprite where every pixel met is overwritten
RECURSIVE push_sprite_overwrite_all(_, _, _, _, _, _, _)
push_sprite_overwrite_all(f, cursor, x, tile_low, tile_hight, palette, background_priority) ==
    IF cursor # f.head /\ x # 0
    THEN push_sprite_overwrite_all([f EXCEPT !.queue[cursor + 1] = sprite_pixel(tile_low, tile_hight, x - 1, palette, background_priority)],
                                   (cursor + 1) % 16, x - 1, tile_low, tile_hight, palette, background_priority)
    ELSE [f |-> f, x |-> x]

\* the while loop of push_sprite: overwrite pixels in fifo, but only if 0
RECURSIVE push_sprite_overwrite(_, _, _, _, _, _, _)
push_sprite_overwrite(f, cursor, x, tile_low, tile_hight, palette, background_priority) ==
    IF cursor # f.head /\ x # 0
    THEN LET color == f.queue[cursor + 1] % 4
             q == IF color = 0 THEN [f EXCEPT !.queue[cursor + 1] = sprite_pixel(tile_low, tile_hight, x - 1, palette, background_priority)] ELSE f
         IN push_sprite_overwrite(q, (cursor + 1) % 16, x - 1, tile_low, tile_hight, palette, background_priority)
    ELSE [f |-> f, x |-> x]

\* the for loop of push_sprite: write remained
RECURSIVE push_sprite_rest(_, _, _, _, _, _)
push_sprite_rest(r, x, tile_low, tile_hight, palette, background_priority) ==
    IF x <= 0 THEN r
    ELSE push_sprite_rest(push_pixel(r, sprite_pixel(tile_low, tile_hight, x - 1, palette, background_priority)), x - 1, tile_low, tile_hight, palette, background_priority)

\* push_sprite without the merge: all the pixels of the sprite are appended
push_sprite_appended(f, tile_low, tile_hight, cut_off, palette, background_priority) ==
    push_sprite_rest([f |-> f, full |-> FALSE], 8 - cut_off, tile_low, tile_hight, palette, background_priority)

push_sprite(f, tile_low, tile_hight, cut_off, palette, background_priority) ==
    LET w == push_sprite_overwrite(f, f.tail, 8 - cut_off, tile_low, tile_hight, palette, background_priority)
    IN push_sprite_rest([f |-> w.f, full |-> FALSE], w.x, tile_low, tile_hight, palette, background_priority)

\* pop_front: v is the pixel, or -1 for None
pop_front(f) ==
    IF is_empty(f) THEN [f |-> f, v |-> -1]
    ELSE [f |-> [f EXCEPT !.tail = (f.tail + 1) % 16], v |-> f.queue[f.tail + 1]]

(***************************************************************************)
(* Ppu                                                                     *)
(***************************************************************************)
Sprite_default == [sx |-> 0, sy |-> 0, tile |-> 0, flags |-> 0]

Ppu_default ==
    [vram |-> ZeroArray, oam |-> ZeroArray, screen |-> ZeroArray,
     sprite_buffer |-> [i \in 1..10 |-> Sprite_default], sprite_buffer_len |-> 0, wyc |-> 0,
     lcdc |-> 0, stat |-> 0, scy |-> 0, scx |-> 0, ly |-> 0, lyc |-> 0, bgp |-> 0, obp0 |-> 0, obp1 |-> 0,
     wy |-> 0, wx |-> 0, state |-> 0, ly_for_compare |-> 0, stat_signal |-> FALSE,
     next_clock_count |-> 0, line_start_clock_count |-> 0,
     background_fifo |-> PixelFifo_default, sprite_fifo |-> PixelFifo_default,
     fetcher_step |-> 0, fetcher_skipped_first_push |-> FALSE, sprite_fetching |-> FALSE,
     fetcher_cycle |-> FALSE, fetcher_x |-> 0, fetch_tile_number |-> 0, fetch_tile_data_low |-> 0,
     fetch_tile_data_hight |-> 0, reach_window |-> FALSE, is_in_window |-> FALSE, curr_x |-> 0, discarting |-> 0]

\* the OAM entry i (0..39) as a Sprite
oam_entry(p, i) == [sy |-> Get(p.oam, 4 * i), sx |-> Get(p.oam, 4 * i + 1), tile |-> Get(p.oam, 4 * i + 2), flags |-> Get(p.oam, 4 * i + 3)]

\* the for loop of search_objects without the test sx > 0
RECURSIVE search_loop_any_x(_, _, _)
search_loop_any_x(p, i, r) ==
    IF i >= 40 THEN r
    ELSE LET s == oam_entry(p, i)
             sprite_height == IF TestBit(p.lcdc, 2) THEN 16 ELSE 8
             hit == p.ly + 16 >= s.sy /\ p.ly + 16 < s.sy + sprite_height
             n == IF hit THEN [buf |-> [r.buf EXCEPT ![r.len + 1] = s], len |-> r.len + 1] ELSE r
         IN IF n.len = 10 THEN n ELSE search_loop_any_x(p, i + 1, n)

\* the for loop of search_objects, from entry i on; r = [buf |-> sprite_buffer, len |-> sprite_buffer_len]
RECURSIVE search_loop(_, _, _)
search_loop(p, i, r) ==
    IF i >= 40 THEN r
    ELSE LET s == oam_entry(p, i)
             sprite_height == IF TestBit(p.lcdc, 2) THEN 16 ELSE 8
             hit == s.sx > 0 /\ p.ly + 16 >= s.sy /\ p.ly + 16 < s.sy + sprite_height
             n == IF hit THEN [buf |-> [r.buf EXCEPT ![r.len + 1] = s], len |-> r.len + 1] ELSE r
         IN IF n.len = 10 THEN n ELSE search_loop(p, i + 1, n)

reverse(s) == [i \in 1..Len(s) |-> s[Len(s) + 1 - i]]

\* slice.sort_by_key(|x| !x.sx): a stable sort, by increasing 255 - sx
RECURSIVE sort_by_key(_, _)
sort_by_key(done, rest) ==
    IF rest = <<>> THEN done
    ELSE LET e == Head(rest)
             k == Cardinality({j \in 1..Len(done) : 255 - done[j].sx <= 255 - e.sx})
         IN sort_by_key(SubSeq(done, 1, k) \o <<e>> \o SubSeq(done, k + 1, Len(done)), Tail(rest))

\* search_objects without the reverse before the sort
search_objects_unreversed(p) ==
    LET r == search_loop(p, 0, [buf |-> p.sprite_buffer, len |-> 0])
        sorted == sort_by_key(<<>>, SubSeq(r.buf, 1, r.len))
    IN [p EXCEPT !.sprite_buffer = sorted \o SubSeq(r.buf, r.len + 1, 10), !.sprite_buffer_len = r.len]

search_objects(p) ==
    LET r == search_loop(p, 0, [buf |-> p.sprite_buffer, len |-> 0])
        sorted == sort_by_key(<<>>, reverse(SubSeq(r.buf, 1, r.len)))
    IN [p EXCEPT !.sprite_buffer = sorted \o SubSeq(r.buf, r.len + 1, 10), !.sprite_buffer_len = r.len]

set_stat_mode(p, mode) == [p EXCEPT !.stat = (p.stat - (p.stat % 4)) + mode]

\* the level of the STAT line with the source of mode 2 also raised in mode 3
stat_line_in_mode_3(p) ==
    \/ (p.stat % 4 = 0 /\ TestBit(p.stat, 3))
    \/ (p.stat % 4 = 1 /\ (TestBit(p.stat, 4) \/ TestBit(p.stat, 5)))
    \/ (p.stat % 4 \in {2, 3} /\ TestBit(p.stat, 5))
    \/ (p.ly_for_compare # 255 /\ p.ly_for_compare = p.lyc /\ TestBit(p.stat, 6))

\* the level of the STAT line that update_stat computes
stat_line(p) ==
    \/ (p.stat % 4 = 0 /\ TestBit(p.stat, 3))
    \/ (p.stat % 4 = 1 /\ (TestBit(p.stat, 4) \/ TestBit(p.stat, 5)))
    \/ (p.stat % 4 = 2 /\ TestBit(p.stat, 5))
    \/ (p.ly_for_compare # 255 /\ p.ly_for_compare = p.lyc /\ TestBit(p.stat, 6))

\* update_stat on the locals of Ppu::update: c.p is the Ppu, c.stat_interrupt the flag
update_stat(c) ==
    LET p == c.p
        line == stat_line(p)
        stat == IF p.ly_for_compare # 255 THEN p.stat - 4 * Bit(p.stat, 2) + (IF p.ly_for_compare = p.lyc THEN 4 ELSE 0) ELSE p.stat
    IN [c EXCEPT !.p.stat = stat, !.p.stat_signal = line, !.stat_interrupt = @ \/ (~p.stat_signal /\ line)]

(***************************************************************************)
(* tick_lcd_fifo: one dot of the pixel pipeline.  The operators below      *)
(* return [p |-> the Ppu, dbg |-> a check of a debug build failed].        *)
(***************************************************************************)
reverse_bits(b) == Bit(b, 0) * 128 + Bit(b, 1) * 64 + Bit(b, 2) * 32 + Bit(b, 3) * 16 + Bit(b, 4) * 8 + Bit(b, 5) * 4 + Bit(b, 6) * 2 + Bit(b, 7)

\* the sprite pre-check at the start of tick_lcd_fifo
sprite_precheck(p) ==
    IF p.discarting = 0 /\ ~p.sprite_fetching /\ p.sprite_buffer_len # 0 /\ TestBit(p.lcdc, 1) /\ p.sprite_buffer[p.sprite_buffer_len].sx <= p.curr_x + 8
    THEN [p EXCEPT !.sprite_fetching = TRUE, !.sprite_buffer_len = @ - 1, !.fetcher_step = 0, !.fetcher_cycle = FALSE]
    ELSE p

\* py of the sprite fetch, in u8 arithmetic: [py |-> the row, overflow |-> it left 0..255]
sprite_py(p, sprite, ly) ==
    LET height == IF TestBit(p.lcdc, 2) THEN 16 ELSE 8
        d == (ly + 16) - sprite.sy
        py == IF TestBit(sprite.flags, 6) THEN (height - 1) - (d % 256) ELSE d
    IN [py |-> py % 256, overflow |-> d < 0 \/ py < 0]

\* the sprite branch of the pixel fetcher
fetch_sprite(p, ly) ==
    LET sprite == p.sprite_buffer[p.sprite_buffer_len + 1]
        r == sprite_py(p, sprite, ly)
        fetch_tile_address == p.fetch_tile_number * 16 + 32768 + (r.py % 8) * 2
        flip_x == TestBit(sprite.flags, 5)
        tile == IF TestBit(p.lcdc, 2) THEN (sprite.tile - (sprite.tile % 2)) + (r.py \div 8) ELSE sprite.tile
        tile_low == IF flip_x THEN reverse_bits(p.fetch_tile_data_low) ELSE p.fetch_tile_data_low
        tile_hight == IF flip_x THEN reverse_bits(p.fetch_tile_data_hight) ELSE p.fetch_tile_data_hight
        cut_off == IF sprite.sx < 8 THEN 8 - sprite.sx ELSE 0
        pushed == push_sprite(p.sprite_fifo, tile_low, tile_hight, cut_off, TestBit(sprite.flags, 4), TestBit(sprite.flags, 7))
    IN CASE p.fetcher_step = 0 -> [p |-> [p EXCEPT !.fetch_tile_number = tile % 256, !.fetcher_step = 1], dbg |-> r.overflow \/ tile > 255]
         [] p.fetcher_step = 1 -> [p |-> [p EXCEPT !.fetch_tile_data_low = Get(p.vram, fetch_tile_address - 32768), !.fetcher_step = 2], dbg |-> r.overflow]
         [] p.fetcher_step = 2 -> [p |-> [p EXCEPT !.fetch_tile_data_hight = Get(p.vram, fetch_tile_address + 1 - 32768), !.fetcher_step = 3], dbg |-> r.overflow]
         [] OTHER -> [p |-> [p EXCEPT !.sprite_fifo = pushed.f, !.fetcher_step = 0, !.sprite_fetching = FALSE], dbg |-> r.overflow \/ pushed.full]

\* the closure fetch_tile_address of the background branch
fetch_tile_address(p, is_in_window, ly) ==
    LET t == IF TestBit(p.lcdc, 4) THEN p.fetch_tile_number ELSE IF p.fetch_tile_number + 256 >= 384 THEN p.fetch_tile_number ELSE p.fetch_tile_number + 256
        offset == IF is_in_window THEN 2 * (p.wyc % 8) ELSE 2 * (((ly + p.scy) % 256) % 8)
    IN t * 16 + 32768 + offset

\* the background and window branch of the pixel fetcher
fetch_background(p, is_in_window, ly) ==
    LET tile_map == IF ~is_in_window THEN (IF TestBit(p.lcdc, 3) THEN 39936 ELSE 38912) ELSE (IF TestBit(p.lcdc, 6) THEN 39936 ELSE 38912)
        tx == IF is_in_window THEN p.fetcher_x ELSE (p.fetcher_x + (p.scx \div 8)) % 32
        ty == IF is_in_window THEN p.wyc \div 8 ELSE ((ly + p.scy) % 256) \div 8
        offset == (32 * ty + tx) % 1024
        address == fetch_tile_address(p, is_in_window, ly)
        pushed == push_background(p.background_fifo, p.fetch_tile_data_low, p.fetch_tile_data_hight)
    IN CASE p.fetcher_step = 0 -> [p |-> [p EXCEPT !.fetch_tile_number = Get(p.vram, tile_map + offset - 32768), !.fetcher_step = 1], dbg |-> p.fetcher_x + (p.scx \div 8) > 255]
         [] p.fetcher_step = 1 -> [p |-> [p EXCEPT !.fetch_tile_data_low = Get(p.vram, address - 32768), !.fetcher_step = 2], dbg |-> FALSE]
         [] p.fetcher_step = 2 -> [p |-> [p EXCEPT !.fetch_tile_data_hight = Get(p.vram, address + 1 - 32768), !.fetcher_skipped_first_push = TRUE, !.fetcher_step = IF p.fetcher_skipped_first_push THEN 3 ELSE 0], dbg |-> FALSE]
         [] OTHER -> IF ~is_empty(p.background_fifo) THEN [p |-> p, dbg |-> FALSE]
                     ELSE [p |-> [p EXCEPT !.background_fifo = pushed.f, !.fetcher_x = (@ + 1) % 256, !.fetcher_step = 0], dbg |-> pushed.full \/ p.fetcher_x = 255]

\* the window trigger without the test of reach_window
window_trigger_unlatched(p) ==
    IF ~p.is_in_window /\ TestBit(p.lcdc, 5) /\ p.curr_x >= (IF p.wx >= 7 THEN p.wx - 7 ELSE 0)
    THEN [p EXCEPT !.is_in_window = TRUE, !.fetcher_step = IF p.sprite_fetching THEN @ ELSE 0, !.discarting = 0, !.fetcher_x = 0, !.background_fifo = clear(@)]
    ELSE p

\* the window trigger of the output stage
window_trigger(p) ==
    IF ~p.is_in_window /\ TestBit(p.lcdc, 5) /\ p.reach_window /\ p.curr_x >= (IF p.wx >= 7 THEN p.wx - 7 ELSE 0)
    THEN [p EXCEPT !.is_in_window = TRUE, !.fetcher_step = IF p.sprite_fetching THEN @ ELSE 0, !.discarting = 0, !.fetcher_x = 0, !.background_fifo = clear(@)]
    ELSE p

\* the colour put on the screen where the sprite's priority bit is not looked at
output_color_no_priority(p, pixel, sprite_pixel_v) ==
    LET bcolor == IF TestBit(p.lcdc, 0) THEN pixel % 4 ELSE 0
        color == (p.bgp \div (2 ^ (bcolor * 2))) % 4
        scolor == sprite_pixel_v % 4
        palette == IF TestBit(sprite_pixel_v, 4) THEN p.obp1 ELSE p.obp0
    IN IF sprite_pixel_v = -1 \/ scolor = 0 THEN color ELSE (palette \div (2 ^ (scolor * 2))) % 4

\* the colour put on the screen for the background pixel and the popped sprite pixel (-1: none)
output_color(p, pixel, sprite_pixel_v) ==
    LET bcolor == IF TestBit(p.lcdc, 0) THEN pixel % 4 ELSE 0
        color == (p.bgp \div (2 ^ (bcolor * 2))) % 4
        scolor == sprite_pixel_v % 4
        background_priority == TestBit(sprite_pixel_v, 3)
        palette == IF TestBit(sprite_pixel_v, 4) THEN p.obp1 ELSE p.obp0
    IN IF sprite_pixel_v = -1 \/ scolor = 0 \/ (background_priority /\ bcolor # 0) THEN color ELSE (palette \div (2 ^ (scolor * 2))) % 4

\* the output stage: pop a background pixel, discard it or draw it
pixel_output(p, ly) ==
    LET b == pop_front(p.background_fifo)
        s == pop_front(p.sprite_fifo)
        i == ly * 160 + p.curr_x
    IN IF b.v = -1 THEN p
       ELSE IF p.discarting > 0 THEN [p EXCEPT !.background_fifo = b.f, !.discarting = @ - 1]
       ELSE [p EXCEPT !.background_fifo = b.f, !.sprite_fifo = s.f, !.screen = Put(@, i, output_color(p, b.v, s.v)), !.curr_x = @ + 1]

\* the pixel fetcher, every second dot
pixel_fetcher(p, is_in_window, ly) ==
    IF ~p.fetcher_cycle THEN [p |-> p, dbg |-> FALSE]
    ELSE IF p.sprite_fetching THEN fetch_sprite(p, ly)
    ELSE fetch_background(p, is_in_window, ly)

\* the rest of the dot after the fetcher: nothing is output while a sprite is fetched
after_fetcher(f, ly) == IF f.p.sprite_fetching THEN f ELSE [p |-> pixel_output(window_trigger(f.p), ly), dbg |-> f.dbg]

tick_lcd_fifo(p0, ly) == after_fetcher(pixel_fetcher([sprite_precheck(p0) EXCEPT !.fetcher_cycle = ~@], p0.is_in_window, ly), ly)

(***************************************************************************)
(* Ppu::update.  The locals of the function are the record c:              *)
(*   p, state, stat_interrupt, vblank_interrupt as in the code;            *)
(*   dbg: a check of a debug build failed (overflow, debug_assert);        *)
(*   vblank_clock: next_clock_count when state 17 raised vblank (or -1).   *)
(***************************************************************************)
\* gb.update_dma(ppu): the DMA of this board is done within the write of 0xFF46
update_dma(g, ppu) == ppu

\* state 24: one dot of the pipeline
Ppu_drawn(c, r) == [c EXCEPT !.p = [r.p EXCEPT !.next_clock_count = @ + 1], !.state = IF r.p.curr_x = 160 THEN 11 ELSE 24, !.dbg = @ \/ r.dbg]

Ppu_draw(c) == Ppu_drawn(c, tick_lcd_fifo(c.p, c.p.ly))

\* state 10 where the pixels to discard are SCX, not SCX & 7
Ppu_mode_3_start_unmasked(c) ==
    [c EXCEPT !.p = [c.p EXCEPT !.background_fifo = clear(@), !.sprite_fifo = clear(@), !.fetcher_step = 0,
                                !.fetcher_skipped_first_push = FALSE, !.sprite_fetching = FALSE, !.fetcher_cycle = FALSE,
                                !.fetcher_x = 0, !.reach_window = @ \/ c.p.wy = c.p.ly, !.is_in_window = FALSE,
                                !.discarting = c.p.scx],
               !.state = 24]

\* state 10: mode_3_start
Ppu_mode_3_start(c) ==
    [c EXCEPT !.p = [c.p EXCEPT !.background_fifo = clear(@), !.sprite_fifo = clear(@), !.fetcher_step = 0,
                                !.fetcher_skipped_first_push = FALSE, !.sprite_fetching = FALSE, !.fetcher_cycle = FALSE,
                                !.fetcher_x = 0, !.reach_window = @ \/ c.p.wy = c.p.ly, !.is_in_window = FALSE,
                                !.discarting = c.p.scx % 8],
               !.state = 24]

\* state 13 where the rest of the line is not shortened by the 2 dots of state 26
Ppu_state_13_long(c) ==
    LET elapsed == c.p.next_clock_count - c.p.line_start_clock_count
    IN [c EXCEPT !.p.next_clock_count = @ + (456 - elapsed), !.state = 26, !.dbg = @ \/ elapsed < 0 \/ elapsed > 456]

\* state 13: the rest of the horizontal blank
Ppu_state_13(c) ==
    LET elapsed == c.p.next_clock_count - c.p.line_start_clock_count
    IN [c EXCEPT !.p.next_clock_count = @ + ((456 - elapsed) - 2), !.state = 26, !.dbg = @ \/ elapsed < 0 \/ elapsed > 454]

\* states 0..14, 24 and 26: the visible lines
Ppu_step_line(c) ==
    LET p == c.p
        elapsed == p.next_clock_count - p.line_start_clock_count
    IN CASE c.state = 0 -> [c EXCEPT !.p = [set_stat_mode(p, 0) EXCEPT !.ly = 0, !.reach_window = FALSE, !.next_clock_count = @ + 1], !.state = 1]
         [] c.state = 1 -> [c EXCEPT !.p = [p EXCEPT !.line_start_clock_count = p.next_clock_count - 8, !.wyc = 0, !.next_clock_count = @ + 76], !.state = 2, !.dbg = @ \/ p.next_clock_count < 8]
         [] c.state = 2 -> [c EXCEPT !.p.next_clock_count = @ + 2, !.state = 3]
         [] c.state = 3 -> [c EXCEPT !.p = [set_stat_mode(p, 3) EXCEPT !.next_clock_count = @ + 2], !.state = 4]
         [] c.state = 4 -> [c EXCEPT !.p.next_clock_count = @ + 3, !.state = 5]
         [] c.state = 5 -> [c EXCEPT !.state = 10]
         [] c.state = 6 -> [c EXCEPT !.p = [p EXCEPT !.line_start_clock_count = p.next_clock_count, !.next_clock_count = @ + 3], !.state = 7]
         [] c.state = 7 -> LET q == IF p.ly = 0 THEN [set_stat_mode(p, 0) EXCEPT !.ly_for_compare = 0] ELSE [set_stat_mode(p, 2) EXCEPT !.ly_for_compare = 255]
                               u == update_stat([c EXCEPT !.p = q])
                           IN [u EXCEPT !.p.next_clock_count = @ + 1, !.state = 8]
         [] c.state = 8 -> LET u == update_stat([c EXCEPT !.p = [set_stat_mode(p, 2) EXCEPT !.ly_for_compare = p.ly]])
                           IN [u EXCEPT !.p = [search_objects(u.p) EXCEPT !.curr_x = 0, !.next_clock_count = @ + 80], !.state = 9]
         [] c.state = 9 -> [update_stat([c EXCEPT !.p = set_stat_mode(p, 3)]) EXCEPT !.state = 10, !.dbg = @ \/ elapsed # 84]
         [] c.state = 10 -> Ppu_mode_3_start(c)
         [] c.state = 24 -> Ppu_draw(c)
         [] c.state = 11 -> [c EXCEPT !.p = [set_stat_mode(p, 0) EXCEPT !.wyc = IF p.is_in_window THEN (@ + 1) % 256 ELSE @, !.next_clock_count = @ + 1], !.state = 12, !.dbg = @ \/ (p.is_in_window /\ p.wyc = 255)]
         [] c.state = 12 -> [update_stat(c) EXCEPT !.p.next_clock_count = @ + 12, !.state = 13]
         [] c.state = 13 -> Ppu_state_13(c)
         [] c.state = 26 -> [c EXCEPT !.p.next_clock_count = @ + 2, !.state = 14]
         [] OTHER -> [c EXCEPT !.p.ly = (@ + 1) % 256, !.state = IF p.ly + 1 = 144 THEN 15 ELSE 6, !.dbg = @ \/ p.ly = 255]

\* state 17 without the test ly == 144: every line of the vertical blank raises the interrupt
Ppu_state_17_every_line(c) ==
    LET p == c.p
        u == update_stat([c EXCEPT !.p = [set_stat_mode(p, 1) EXCEPT !.ly_for_compare = p.ly]])
    IN [u EXCEPT !.p.next_clock_count = @ + (456 - 4), !.state = 25, !.vblank_interrupt = TRUE, !.vblank_clock = p.next_clock_count]

\* state 17: dot 4 of a line of the vertical blank
Ppu_state_17(c) ==
    LET p == c.p
        q == IF p.ly = 144 THEN set_stat_mode(p, 1) ELSE p
        u == update_stat([c EXCEPT !.p = [q EXCEPT !.ly_for_compare = p.ly]])
    IN [u EXCEPT !.p.next_clock_count = @ + (456 - 4), !.state = 25,
                 !.vblank_interrupt = @ \/ p.ly = 144,
                 !.vblank_clock = IF p.ly = 144 THEN p.next_clock_count ELSE @]

\* states 15..23 and 25 where state 18 lasts 4 dots
Ppu_step_vblank_short_18(c) ==
    LET p == c.p
    IN CASE c.state = 15 -> IF p.ly = 153 THEN [c EXCEPT !.state = 18]
                            ELSE [c EXCEPT !.p = [p EXCEPT !.ly_for_compare = 255, !.next_clock_count = @ + 2], !.state = 16]
         [] c.state = 16 -> [c EXCEPT !.p.next_clock_count = @ + 2, !.state = 17]
         [] c.state = 17 -> Ppu_state_17(c)
         [] c.state = 25 -> [c EXCEPT !.p.ly = (@ + 1) % 256, !.state = 15, !.dbg = @ \/ p.ly = 255]
         [] c.state = 18 -> [update_stat([c EXCEPT !.p = [p EXCEPT !.ly = 153, !.ly_for_compare = 255]]) EXCEPT !.p.next_clock_count = @ + 4, !.state = 19]
         [] c.state = 19 -> [update_stat([c EXCEPT !.p = [p EXCEPT !.ly = 0, !.ly_for_compare = 153]]) EXCEPT !.p.next_clock_count = @ + 4, !.state = 20]
         [] c.state = 20 -> [update_stat([c EXCEPT !.p.ly = 0]) EXCEPT !.p.next_clock_count = @ + 4, !.state = 21]
         [] c.state = 21 -> [update_stat([c EXCEPT !.p.ly_for_compare = 0]) EXCEPT !.p.next_clock_count = @ + 12, !.state = 22]
         [] c.state = 22 -> [c EXCEPT !.p.next_clock_count = @ + (456 - 24), !.state = 23]
         [] OTHER -> [c EXCEPT !.p = [p EXCEPT !.ly = 0, !.reach_window = FALSE, !.wyc = 0, !.curr_x = 0], !.state = 6]

\* states 15..23 and 25: the lines of the vertical blank
Ppu_step_vblank(c) ==
    LET p == c.p
    IN CASE c.state = 15 -> IF p.ly = 153 THEN [c EXCEPT !.state = 18]
                            ELSE [c EXCEPT !.p = [p EXCEPT !.ly_for_compare = 255, !.next_clock_count = @ + 2], !.state = 16]
         [] c.state = 16 -> [c EXCEPT !.p.next_clock_count = @ + 2, !.state = 17]
         [] c.state = 17 -> Ppu_state_17(c)
         [] c.state = 25 -> [c EXCEPT !.p.ly = (@ + 1) % 256, !.state = 15, !.dbg = @ \/ p.ly = 255]
         [] c.state = 18 -> [update_stat([c EXCEPT !.p = [p EXCEPT !.ly = 153, !.ly_for_compare = 255]]) EXCEPT !.p.next_clock_count = @ + 6, !.state = 19]
         [] c.state = 19 -> [update_stat([c EXCEPT !.p = [p EXCEPT !.ly = 0, !.ly_for_compare = 153]]) EXCEPT !.p.next_clock_count = @ + 2, !.state = 20]
         [] c.state = 20 -> [update_stat([c EXCEPT !.p.ly = 0]) EXCEPT !.p.next_clock_count = @ + 4, !.state = 21]
         [] c.state = 21 -> [update_stat([c EXCEPT !.p.ly_for_compare = 0]) EXCEPT !.p.next_clock_count = @ + 12, !.state = 22]
         [] c.state = 22 -> [c EXCEPT !.p.next_clock_count = @ + (456 - 24), !.state = 23]
         [] OTHER -> [c EXCEPT !.p = [p EXCEPT !.ly = 0, !.reach_window = FALSE, !.wyc = 0, !.curr_x = 0], !.state = 6]

\* one pass of the match of Ppu::update
Ppu_step(c) == IF c.state \in (0..14) \cup {24, 26} THEN Ppu_step_line(c) ELSE Ppu_step_vblank(c)

\* at most 2^k passes of the loop while ppu.next_clock_count < gb.clock_count
RECURSIVE Ppu_passes(_, _, _)
\* the passes that follow the first half h of them
RECURSIVE Ppu_passes_rest(_, _, _)
Ppu_passes_rest(h, clock_count, k) == IF h.state \in 0..26 THEN Ppu_passes(h, clock_count, k) ELSE h

Ppu_passes(c, clock_count, k) ==
    IF c.p.next_clock_count >= clock_count THEN c
    ELSE IF k = 0 THEN Ppu_step(c)
    ELSE Ppu_passes_rest(Ppu_passes(c, clock_count, k - 1), clock_count, k - 1)

\* while ppu.next_clock_count < gb.clock_count
RECURSIVE Ppu_loop(_, _)
\* the loop after the passes h
RECURSIVE Ppu_loop_rest(_, _)
Ppu_loop_rest(h, clock_count) == IF h.state \in 0..26 THEN Ppu_loop(h, clock_count) ELSE h

Ppu_loop(c, clock_count) == IF c.p.next_clock_count < clock_count THEN Ppu_loop_rest(Ppu_passes(c, clock_count, 8), clock_count) ELSE c

\* Ppu::update: [p |-> the Ppu afterwards, v, s |-> the pair returned, dbg, vblank_clock]
\* the locals of Ppu::update at its start
Ppu_locals(g) == [p |-> update_dma(g, g.ppu), state |-> g.ppu.state, stat_interrupt |-> FALSE, vblank_interrupt |-> FALSE, dbg |-> FALSE, vblank_clock |-> -1]

\* the end of Ppu::update: ppu.state = state, and the pair returned
Ppu_returned(c) == [p |-> [c.p EXCEPT !.state = c.state], v |-> c.vblank_interrupt, s |-> c.stat_interrupt, dbg |-> c.dbg, vblank_clock |-> c.vblank_clock]

\* Ppu::update without the update_stat before the loop
Ppu_update_no_first_stat(g) ==
    IF ~TestBit(g.ppu.lcdc, 7)
    THEN [p |-> [g.ppu EXCEPT !.next_clock_count = g.clock_count], v |-> FALSE, s |-> FALSE, dbg |-> FALSE, vblank_clock |-> -1]
    ELSE Ppu_returned(Ppu_loop(Ppu_locals(g), g.clock_count))

\* Ppu::update without the early return of a disabled LCD
Ppu_update_always(g) == Ppu_returned(Ppu_loop(update_stat(Ppu_locals(g)), g.clock_count))

Ppu_update(g) ==
    IF ~TestBit(g.ppu.lcdc, 7)
    THEN [p |-> [g.ppu EXCEPT !.next_clock_count = g.clock_count], v |-> FALSE, s |-> FALSE, dbg |-> FALSE, vblank_clock |-> -1]
    ELSE Ppu_returned(Ppu_loop(update_stat(Ppu_locals(g)), g.clock_count))

(***************************************************************************)
(* Ppu::write and Ppu::read.  The operations of the board return           *)
(*   [g |-> the board afterwards, ret |-> the byte returned,               *)
(*    edge |-> a Ppu::update made for a read or a write returned an edge,  *)
(*    dbg |-> a check of a debug build failed, panic |-> a panic].         *)
(***************************************************************************)
Res(g) == [g |-> g, ret |-> 0, edge |-> FALSE, dbg |-> FALSE, panic |-> FALSE]

\* the arm 0x40 of Ppu::write where the disabling branch leaves the macro state as it is
write_lcdc_keeps_state(this, value, clock_count) ==
    IF Bit(value, 7) = Bit(this.lcdc, 7) THEN [this EXCEPT !.lcdc = value]
    ELSE IF Bit(value, 7) = 0
    THEN [this EXCEPT !.ly = 0, !.line_start_clock_count = 0, !.stat = @ - (@ % 4), !.lcdc = value]
    ELSE [this EXCEPT !.ly_for_compare = 0, !.next_clock_count = clock_count, !.lcdc = value]

\* the arm 0x40 of Ppu::write, on the Ppu left by the update
write_lcdc(this, value, clock_count) ==
    IF Bit(value, 7) = Bit(this.lcdc, 7) THEN [this EXCEPT !.lcdc = value]
    ELSE IF Bit(value, 7) = 0
    THEN [this EXCEPT !.ly = 0, !.line_start_clock_count = 0, !.stat = @ - (@ % 4), !.state = 0, !.lcdc = value]
    ELSE [this EXCEPT !.ly_for_compare = 0, !.next_clock_count = clock_count, !.lcdc = value]

\* the arm 0x41 of Ppu::write
write_stat(this, value) == [this EXCEPT !.stat = SetBit((value - (value % 8)) + (this.stat % 8), 7)]

\* Ppu::write after its call of Ppu::update, which returned u
Ppu_written(g, u, address, value) ==
    LET this == u.p
        enabling == address = 64 /\ Bit(value, 7) = 1 /\ Bit(this.lcdc, 7) = 0
        after == CASE address = 64 -> write_lcdc(this, value, g.clock_count)
                   [] address = 65 -> write_stat(this, value)
                   [] address = 66 -> [this EXCEPT !.scy = value]
                   [] address = 67 -> [this EXCEPT !.scx = value]
                   [] address = 68 -> this
                   [] address = 69 -> [this EXCEPT !.lyc = value]
                   [] address = 71 -> [this EXCEPT !.bgp = value]
                   [] address = 72 -> [this EXCEPT !.obp0 = value]
                   [] address = 73 -> [this EXCEPT !.obp1 = value]
                   [] address = 74 -> [this EXCEPT !.wy = value]
                   [] address = 75 -> [this EXCEPT !.wx = value]
                   [] OTHER -> this
    IN [g |-> [g EXCEPT !.ppu = after], ret |-> 0, edge |-> u.v \/ u.s,
        dbg |-> u.dbg \/ u.v \/ u.s \/ (enabling /\ (this.ly # 0 \/ this.stat % 4 # 0)),
        panic |-> address \notin (64..69) \cup (71..75)]

Ppu_write(g, address, value) == Ppu_written(g, Ppu_update(g), address, value)

\* the arms 0x41 and 0x44 of Ppu::read without their call of Ppu::update
Ppu_read_stale(g, u, address) == [Res(g) EXCEPT !.ret = IF address = 65 THEN SetBit(g.ppu.stat, 7) ELSE g.ppu.ly]

\* the arms 0x41 and 0x44 of Ppu::read after their call of Ppu::update, which returned u
Ppu_read_updated(g, u, address) ==
    [g |-> [g EXCEPT !.ppu = u.p], ret |-> IF address = 65 THEN SetBit(u.p.stat, 7) ELSE u.p.ly,
     edge |-> u.v \/ u.s, dbg |-> u.dbg \/ u.v \/ u.s, panic |-> FALSE]

Ppu_read(g, address) ==
    LET this == g.ppu
    IN CASE address = 64 -> [Res(g) EXCEPT !.ret = this.lcdc]
         [] address \in {65, 68} -> Ppu_read_updated(g, Ppu_update(g), address)
         [] address = 66 -> [Res(g) EXCEPT !.ret = this.scy]
         [] address = 67 -> [Res(g) EXCEPT !.ret = this.scx]
         [] address = 69 -> [Res(g) EXCEPT !.ret = this.lyc]
         [] address = 71 -> [Res(g) EXCEPT !.ret = this.bgp]
         [] address = 72 -> [Res(g) EXCEPT !.ret = this.obp0]
         [] address = 73 -> [Res(g) EXCEPT !.ret = this.obp1]
         [] address = 74 -> [Res(g) EXCEPT !.ret = this.wy]
         [] address = 75 -> [Res(g) EXCEPT !.ret = this.wx]
         [] OTHER -> [Res(g) EXCEPT !.panic = TRUE]

(***************************************************************************)
(* GameBoy                                                                 *)
(***************************************************************************)
\* Cartridge::read and Cartridge::write: a cartridge with no mapper
Cartridge_read(cartridge, address) == IF address < 32768 THEN Get(cartridge.rom, address) ELSE Get(cartridge.ram, address - 40960)

Cartridge_write(cartridge, address, value) == IF address < 32768 THEN cartridge ELSE [cartridge EXCEPT !.ram = Put(@, address - 40960, value)]

\* SoundController: the registers as plain bytes, and the clock the controller was last advanced to
Sound_default == [regs |-> ZeroArray, last_clock |-> 0]

\* SoundController::update: the controller advanced to clock_count
Sound_update(sound, clock_count) == [sound EXCEPT !.last_clock = clock_count]

\* SoundController::read and SoundController::write; both advance the controller to clock_count first
Sound_read(sound, address) == Get(sound.regs, address)

Sound_write(sound, clock_count, address, value) == [Sound_update(sound, clock_count) EXCEPT !.regs = Put(@, address, value)]

\* the struct that GameBoy::new builds; boot_rom is an Option: [is_some |-> BOOLEAN, rom |-> the bytes]
GameBoy_fields(boot_rom, cartridge) ==
    [cpu |-> [pc |-> 0], cartridge |-> cartridge, wram |-> ZeroArray, hram |-> ZeroArray,
     boot_rom |-> boot_rom, boot_rom_active |-> TRUE, clock_count |-> 0, timer |-> Timer_default,
     sound |-> Sound_default, ppu |-> Ppu_default, joypad |-> 255, joypad_io |-> 255,
     serial_data |-> 0, serial_control |-> 0, interrupt_flag |-> 0, interrupt_enabled |-> 0]

\* the arm 0x00 of read_io with the two nibbles of joypad exchanged
read_joypad_exchanged(g) ==
    LET v == g.joypad_io
        hi == IF TestBit(v, 5) THEN g.joypad \div 16 ELSE 0
        lo == IF TestBit(v, 4) THEN g.joypad % 16 ELSE 0
    IN Or8(Or8(Or8(And8(v, 48), 192), hi), lo)

\* the arm 0x00 of read_io: JOYPAD
read_joypad(g) ==
    LET v == g.joypad_io
        hi == IF TestBit(v, 4) THEN g.joypad \div 16 ELSE 0
        lo == IF TestBit(v, 5) THEN g.joypad % 16 ELSE 0
    IN Or8(Or8(Or8(And8(v, 48), 192), hi), lo)

read_io(g, address) ==
    CASE address = 0 -> [Res(g) EXCEPT !.ret = read_joypad(g)]
      [] address = 1 -> [Res(g) EXCEPT !.ret = g.serial_data]
      [] address = 2 -> [Res(g) EXCEPT !.ret = g.serial_control]
      [] address = 4 -> [Res(g) EXCEPT !.ret = read_div(g.timer)]
      [] address = 5 -> [Res(g) EXCEPT !.ret = g.timer.tima]
      [] address = 6 -> [Res(g) EXCEPT !.ret = g.timer.tma]
      [] address = 7 -> [Res(g) EXCEPT !.ret = g.timer.tac]
      [] address = 15 -> [Res(g) EXCEPT !.ret = g.interrupt_flag]
      [] address \in (16..20) \cup (22..30) \cup (32..38) \cup (48..63) -> [Res([g EXCEPT !.sound = Sound_update(@, g.clock_count)]) EXCEPT !.ret = Sound_read(g.sound, address)]
      [] address \in (64..69) \cup (71..75) -> Ppu_read(g, address)
      [] address \in 128..254 -> [Res(g) EXCEPT !.ret = Get(g.hram, address - 128)]
      [] address = 255 -> [Res(g) EXCEPT !.ret = g.interrupt_enabled]
      [] OTHER -> [Res(g) EXCEPT !.ret = 255]

\* ECHO RAM taken for the 4 KiB below it
echo_4k(address0) == IF address0 \in 57344..65023 THEN address0 - 4096 ELSE address0

\* if (0xE000..=0xFDFF).contains(&address) { address -= 0x2000; }
echo(address0) == IF address0 \in 57344..65023 THEN address0 - 8192 ELSE address0

read(g, address0) ==
    LET address == echo(address0)
    IN IF g.boot_rom_active /\ address0 < 256
       THEN (IF ~g.boot_rom.is_some THEN [Res(g) EXCEPT !.panic = TRUE] ELSE [Res(g) EXCEPT !.ret = Get(g.boot_rom.rom, address0)])
       ELSE IF address \in (65280..65407) \cup {65535} THEN read_io(g, address % 256)
       ELSE CASE address \in 0..32767 -> [Res(g) EXCEPT !.ret = Cartridge_read(g.cartridge, address)]
              [] address \in 32768..40959 -> [Res(g) EXCEPT !.ret = Get(g.ppu.vram, address - 32768)]
              [] address \in 40960..49151 -> [Res(g) EXCEPT !.ret = Cartridge_read(g.cartridge, address)]
              [] address \in 49152..57343 -> [Res(g) EXCEPT !.ret = Get(g.wram, address - 49152)]
              [] address \in 57344..65023 -> [Res(g) EXCEPT !.panic = TRUE]
              [] address \in 65024..65183 -> [Res(g) EXCEPT !.ret = Get(g.ppu.oam, address - 65024)]
              [] address \in 65184..65279 -> [Res(g) EXCEPT !.ret = 255]
              [] OTHER -> [Res(g) EXCEPT !.ret = Get(g.hram, address - 65408)]

\* the flags of two operations made one after the other
After(r, n) == [n EXCEPT !.edge = @ \/ r.edge, !.dbg = @ \/ r.dbg, !.panic = @ \/ r.panic]

\* the arm 0xFE00..=0xFE9F of write
write_oam(g, address, value) == Res([g EXCEPT !.ppu.oam = Put(@, address - 65024, value)])

\* the arm 0x46 of write_io, DMA Transfer: the pairs lo..hi of (0xFE00..=0xFE9F).zip(start..start + 0x9F);
\* each pair reads start + lo and writes the byte to 0xFE00 + lo, an address of the OAM arm of write
RECURSIVE dma_pairs(_, _, _, _)
\* self.write(i, value) of the pair lo, with the byte that the read rd returned
dma_store(rd, lo) == After(rd, write_oam(rd.g, 65024 + lo, rd.ret))

\* the pairs that follow the first half h of them
RECURSIVE dma_pairs_rest(_, _, _, _)
dma_pairs_rest(h, start, lo, hi) == IF h.panic \in BOOLEAN THEN dma_pairs(h, start, lo, hi) ELSE h

dma_pairs(r, start, lo, hi) ==
    IF lo > hi THEN r
    ELSE IF lo = hi THEN dma_store(After(r, read(r.g, start + lo)), lo)
    ELSE dma_pairs_rest(dma_pairs(r, start, lo, (lo + hi) \div 2), start, ((lo + hi) \div 2) + 1, hi)

\* the number of pairs of the zip: the shorter of 0xFE00..=0xFE9F and start..start + 0x9F
dma_len(start) == IF (65183 - 65024) + 1 < (start + 159) - start THEN (65183 - 65024) + 1 ELSE (start + 159) - start

\* the arm 0x50 of write_io where bit 0 of the value is the new state of the boot ROM: 0 maps it in again
write_boot_switch(g, value) == [g EXCEPT !.boot_rom_active = ~TestBit(value, 0), !.cpu.pc = IF TestBit(value, 0) THEN 256 ELSE @]

\* the arm 0x50 of write_io
write_boot(g, value) == IF TestBit(value, 0) THEN [g EXCEPT !.boot_rom_active = FALSE, !.cpu.pc = 256] ELSE g

write_io(g, address, value) ==
    CASE address = 0 -> Res([g EXCEPT !.joypad_io = Or8(207, And8(value, 48))])
      [] address = 1 -> Res([g EXCEPT !.serial_data = value])
      [] address = 2 -> Res([g EXCEPT !.serial_control = value])
      [] address = 4 -> Res([g EXCEPT !.timer = write_div(@, value)])
      [] address = 5 -> Res([g EXCEPT !.timer.tima = value])
      [] address = 6 -> Res([g EXCEPT !.timer.tma = value])
      [] address = 7 -> Res([g EXCEPT !.timer.tac = value])
      [] address = 15 -> Res([g EXCEPT !.interrupt_flag = value])
      [] address \in (16..20) \cup (22..30) \cup (32..38) \cup (48..63) -> Res([g EXCEPT !.sound = Sound_write(@, g.clock_count, address, value)])
      [] address \in (64..69) \cup (71..75) -> Ppu_write(g, address, value)
      [] address = 70 -> dma_pairs(Res(g), value * 256, 0, dma_len(value * 256) - 1)
      [] address = 80 -> Res(write_boot(g, value))
      [] address \in 128..254 -> Res([g EXCEPT !.hram = Put(@, address - 128, value)])
      [] address = 255 -> Res([g EXCEPT !.interrupt_enabled = value])
      [] OTHER -> Res(g)

write(g, address0, value) ==
    LET address == echo(address0)
    IN IF address \in (65280..65407) \cup {65535} THEN write_io(g, address % 256, value)
       ELSE CASE address \in 0..32767 -> Res([g EXCEPT !.cartridge = Cartridge_write(@, address, value)])
              [] address \in 32768..40959 -> Res([g EXCEPT !.ppu.vram = Put(@, address - 32768, value)])
              [] address \in 40960..49151 -> Res([g EXCEPT !.cartridge = Cartridge_write(@, address, value)])
              [] address \in 49152..57343 -> Res([g EXCEPT !.wram = Put(@, address - 49152, value)])
              [] address \in 57344..65023 -> [Res(g) EXCEPT !.panic = TRUE]
              [] address \in 65024..65183 -> write_oam(g, address, value)
              [] address \in 65184..65279 -> Res(g)
              [] OTHER -> Res([g EXCEPT !.hram = Put(@, address - 65408, value)])

\* GameBoy::tick: [g, v, s |-> the pair Ppu::update returned, calls |-> the calls of the v-blank callback,
\* seen |-> the board the callback is given, dbg, vblank_clock]
\* the first part of tick where the timer's interrupt is stored into IF, not ORed into it
tick_timer_stores(g, t, clock_count) == [g EXCEPT !.clock_count = clock_count, !.timer = t.t, !.interrupt_flag = IF t.interrupt THEN 4 ELSE @]

\* the first part of tick: the clock and the timer
tick_timer(g, t, clock_count) == [g EXCEPT !.clock_count = clock_count, !.timer = t.t, !.interrupt_flag = IF t.interrupt THEN SetBit(@, 2) ELSE @]

\* the second part of tick, with the pair u that Ppu::update returned: v_blank, then the STAT bit
tick_ppu(g1, u) ==
    LET g2 == [g1 EXCEPT !.ppu = u.p]
        g3 == [g2 EXCEPT !.interrupt_flag = IF u.v THEN SetBit(@, 0) ELSE @]
        g4 == [g3 EXCEPT !.interrupt_flag = IF u.s THEN SetBit(@, 1) ELSE @]
    IN [g |-> g4, v |-> u.v, s |-> u.s, calls |-> IF u.v THEN 1 ELSE 0, seen |-> g2, dbg |-> u.dbg, vblank_clock |-> u.vblank_clock]

tick_updated(g1) == tick_ppu(g1, Ppu_update(g1))

\* GameBoy::tick without self.clock_count += count
tick_clock_kept(g, count) == tick_updated(tick_timer(g, Timer_update(g.timer, g.clock_count), g.clock_count))

tick(g, count) == tick_updated(tick_timer(g, Timer_update(g.timer, g.clock_count + count), g.clock_count + count))

\* Ppu::reset_after_boot; vram, oam and screen are read from after_boot/ppu.sav
Ppu_reset_after_boot ==
    [Ppu_default EXCEPT !.lcdc = 145, !.stat = 5, !.bgp = 252, !.state = 23, !.next_clock_count = 23440377,
                        !.line_start_clock_count = 23435361, !.fetcher_step = 3, !.fetcher_x = 20, !.reach_window = TRUE,
                        !.fetcher_skipped_first_push = TRUE, !.curr_x = 160]

\* GameBoy::reset_after_boot; the sound and the ppu are loaded from after_boot/sound.sav and after_boot/ppu.sav
reset_after_boot(g) ==
    [g EXCEPT !.cpu = [pc |-> 256], !.wram = ZeroArray, !.hram = [i \in 122..124 |-> <<57, 1, 46>>[i - 121]],
              !.boot_rom_active = FALSE, !.clock_count = 23384580,
              !.timer = [div |-> 210, tima |-> 0, tma |-> 0, tac |-> 0, last_counter_bit |-> FALSE, last_clock_count |-> 23384580],
              !.sound = Sound_update(Sound_default, 23384580), !.ppu = Ppu_reset_after_boot, !.joypad = 255, !.joypad_io = 0]

\* GameBoy::reset
reset(g) ==
    IF ~g.boot_rom.is_some THEN reset_after_boot(g)
    ELSE [g EXCEPT !.cpu = [pc |-> 0], !.wram = ZeroArray, !.hram = ZeroArray, !.boot_rom_active = TRUE, !.clock_count = 0,
                   !.timer = Timer_default, !.sound = Sound_default, !.ppu = Ppu_default, !.joypad = 255, !.joypad_io = 0]

GameBoy_new(boot_rom, cartridge) ==
    IF ~boot_rom.is_some THEN reset_after_boot(GameBoy_fields(boot_rom, cartridge)) ELSE GameBoy_fields(boot_rom, cartridge)

\* PartialEq for GameBoy: the fields that eq compares
GameBoy_eq(a, b) ==
    /\ a.cpu = b.cpu /\ a.cartridge = b.cartridge /\ a.wram = b.wram /\ a.hram = b.hram /\ a.boot_rom = b.boot_rom
    /\ a.boot_rom_active = b.boot_rom_active /\ a.clock_count = b.clock_count /\ a.timer = b.timer /\ a.sound = b.sound
    /\ a.ppu = b.ppu /\ a.joypad = b.joypad /\ a.joypad_io = b.joypad_io

(***************************************************************************)
(* Save states.  A snapshot is the sequence of the bytes written, in the   *)
(* order they are written; a fixed-size array of bytes (wram, hram, vram,  *)
(* oam, screen, the registers of the sound controller, the RAM of the      *)
(* cartridge) stands in it as one element holding the whole run of its     *)
(* bytes.  load_state is given a whole snapshot: no read runs past its end.*)
(***************************************************************************)
\* an unsigned integer of n bytes, least significant byte first (a negative v is the wrapped value 2^(8n) + v)
RECURSIVE le_bytes(_, _)
le_bytes(v, n) == IF n = 0 THEN <<>> ELSE <<v % 256>> \o le_bytes(v \div 256, n - 1)

\* the number that the bytes b, least significant first, spell
RECURSIVE from_le(_)
from_le(b) == IF Len(b) = 0 THEN 0 ELSE Head(b) + 256 * from_le(Tail(b))

\* the unsigned integer of n bytes read at data[at]; one with its top bit set is kept as the wrapped negative
load_le(data, at, n) ==
    LET b == SubSeq(data, at, at + n - 1)
    IN IF b[n] >= 128 THEN -1 - from_le([i \in 1..n |-> 255 - b[i]]) ELSE from_le(b)

\* up to 8 bools packed into one byte, the first in bit 0
RECURSIVE save_bools(_)
save_bools(bs) == IF Len(bs) = 0 THEN 0 ELSE (IF Head(bs) THEN 1 ELSE 0) + 2 * save_bools(Tail(bs))

\* Timer::save_state
Timer_save_state(t) ==
    le_bytes(t.div, 2) \o <<t.tima, t.tma, t.tac, save_bools(<<t.last_counter_bit>>)>> \o le_bytes(t.last_clock_count, 8)

\* Timer::load_state with tima and tma read in the other order
Timer_load_state_exchanged(data, at) ==
    [div |-> load_le(data, at, 2), tima |-> data[at + 3], tma |-> data[at + 2], tac |-> data[at + 4],
     last_counter_bit |-> TestBit(data[at + 5], 0), last_clock_count |-> load_le(data, at + 6, 8)]

\* Timer::load_state, from data[at] on
Timer_load_state(data, at) ==
    [div |-> load_le(data, at, 2), tima |-> data[at + 2], tma |-> data[at + 3], tac |-> data[at + 4],
     last_counter_bit |-> TestBit(data[at + 5], 0), last_clock_count |-> load_le(data, at + 6, 8)]

\* PixelFifo::save_state
PixelFifo_save_state(f) == f.queue \o <<f.head, f.tail>>

\* PixelFifo::load_state
PixelFifo_load_state(data, at) == [queue |-> SubSeq(data, at, at + 15), head |-> data[at + 16], tail |-> data[at + 17]]

\* Sprite::save_state
Sprite_save_state(s) == <<s.sx, s.sy, s.tile, s.flags>>

\* Sprite::load_state
Sprite_load_state(data, at) == [sx |-> data[at], sy |-> data[at + 1], tile |-> data[at + 2], flags |-> data[at + 3]]

\* [Sprite; 10]::save_state, from sprite i on
RECURSIVE sprites_save_state(_, _)
sprites_save_state(buf, i) == IF i > 10 THEN <<>> ELSE Sprite_save_state(buf[i]) \o sprites_save_state(buf, i + 1)

\* Ppu::save_state
Ppu_save_state(p) ==
    <<p.vram, p.oam, p.screen>> \o sprites_save_state(p.sprite_buffer, 1)
    \o <<p.sprite_buffer_len, p.wyc, p.lcdc, p.stat, p.scy, p.scx, p.ly, p.lyc, p.bgp, p.obp0, p.obp1, p.wy, p.wx, p.state, p.ly_for_compare>>
    \o le_bytes(p.next_clock_count, 8) \o le_bytes(p.line_start_clock_count, 8)
    \o PixelFifo_save_state(p.background_fifo) \o PixelFifo_save_state(p.sprite_fifo)
    \o <<p.fetcher_step, p.fetcher_x, p.fetch_tile_number, p.fetch_tile_data_low, p.fetch_tile_data_hight>>
    \o <<save_bools(<<p.reach_window, p.is_in_window, p.fetcher_skipped_first_push, p.sprite_fetching, p.fetcher_cycle, p.stat_signal>>)>>
    \o <<p.curr_x, p.discarting>>

\* Ppu::load_state, from data[at] on
Ppu_load_state(data, at) ==
    [vram |-> data[at], oam |-> data[at + 1], screen |-> data[at + 2],
     sprite_buffer |-> [i \in 1..10 |-> Sprite_load_state(data, at + 3 + 4 * (i - 1))],
     sprite_buffer_len |-> data[at + 43], wyc |-> data[at + 44], lcdc |-> data[at + 45], stat |-> data[at + 46],
     scy |-> data[at + 47], scx |-> data[at + 48], ly |-> data[at + 49], lyc |-> data[at + 50], bgp |-> data[at + 51],
     obp0 |-> data[at + 52], obp1 |-> data[at + 53], wy |-> data[at + 54], wx |-> data[at + 55], state |-> data[at + 56],
     ly_for_compare |-> data[at + 57], next_clock_count |-> load_le(data, at + 58, 8),
     line_start_clock_count |-> load_le(data, at + 66, 8),
     background_fifo |-> PixelFifo_load_state(data, at + 74), sprite_fifo |-> PixelFifo_load_state(data, at + 92),
     fetcher_step |-> data[at + 110], fetcher_x |-> data[at + 111], fetch_tile_number |-> data[at + 112],
     fetch_tile_data_low |-> data[at + 113], fetch_tile_data_hight |-> data[at + 114],
     reach_window |-> TestBit(data[at + 115], 0), is_in_window |-> TestBit(data[at + 115], 1),
     fetcher_skipped_first_push |-> TestBit(data[at + 115], 2), sprite_fetching |-> TestBit(data[at + 115], 3),
     fetcher_cycle |-> TestBit(data[at + 115], 4), stat_signal |-> TestBit(data[at + 115], 5),
     curr_x |-> data[at + 116], discarting |-> data[at + 117]]

\* Cpu::save_state and Cpu::load_state: the registers, of which the model keeps pc
Cpu_save_state(cpu) == le_bytes(cpu.pc, 2)

Cpu_load_state(data, at) == [pc |-> load_le(data, at, 2)]

\* Cartridge::save_state and Cartridge::load_state: the RAM of the cartridge; the ROM is not part of a snapshot
Cartridge_save_state(cartridge) == <<cartridge.ram>>

Cartridge_load_state(cartridge, data, at) == [cartridge EXCEPT !.ram = data[at]]

\* SoundController::save_state and SoundController::load_state: the registers and last_clock
Sound_save_state(sound) == <<sound.regs>> \o le_bytes(sound.last_clock, 8)

Sound_load_state(data, at) == [regs |-> data[at], last_clock |-> load_le(data, at + 1, 8)]

\* GameBoy::save_state: r = [g |-> the board after it (sound is behind a RefCell and is advanced), data |-> the snapshot]
GameBoy_save_state(g) ==
    LET sound == Sound_update(g.sound, g.clock_count)
    IN [g |-> [g EXCEPT !.sound = sound],
        data |-> Cpu_save_state(g.cpu) \o Cartridge_save_state(g.cartridge) \o <<g.wram, g.hram, save_bools(<<g.boot_rom_active>>)>>
                 \o le_bytes(g.clock_count, 8) \o Timer_save_state(g.timer) \o Sound_save_state(sound)
                 \o Ppu_save_state(g.ppu) \o <<g.joypad, g.joypad_io>>]

\* GameBoy::load_state without the comparison of sound.last_clock with clock_count
GameBoy_load_state_unchecked(g, data) ==
    [g |-> [g EXCEPT !.cpu = Cpu_load_state(data, 1), !.cartridge = Cartridge_load_state(@, data, 3), !.wram = data[4],
                     !.hram = data[5], !.boot_rom_active = TestBit(data[6], 0), !.clock_count = load_le(data, 7, 8),
                     !.timer = Timer_load_state(data, 15), !.sound = Sound_load_state(data, 29),
                     !.ppu = Ppu_load_state(data, 38), !.joypad = data[156], !.joypad_io = data[157]],
     err |-> "Ok"]

\* GameBoy::load_state: r = [g |-> the board after it, err |-> "Ok" or the LoadStateError returned]
GameBoy_load_state(g, data) ==
    LET g1 == [g EXCEPT !.cpu = Cpu_load_state(data, 1), !.cartridge = Cartridge_load_state(@, data, 3), !.wram = data[4],
                        !.hram = data[5], !.boot_rom_active = TestBit(data[6], 0), !.clock_count = load_le(data, 7, 8),
                        !.timer = Timer_load_state(data, 15), !.sound = Sound_load_state(data, 29)]
    IN IF g1.sound.last_clock # g1.clock_count THEN [g |-> g1, err |-> "SoundControllerDesync"]
       ELSE [g |-> [g1 EXCEPT !.ppu = Ppu_load_state(data, 38), !.joypad = data[156], !.joypad_io = data[157]], err |-> "Ok"]

(***************************************************************************)
(* The state machine.  obs records what the caller of the board observes:  *)
(*   op, address, value: the last operation (value is the count of a tick) *)
(*   ret: the byte the last read returned                                  *)
(*   panicked: the last operation panicked (the program is over)           *)
(*   rw_edge: a Ppu::update made for a read or a write returned an edge    *)
(*   vblank, stat: the pair the Ppu::update of the last tick returned      *)
(*   v_blank_calls: the calls of the v-blank callback so far               *)
(*   v_blank_seen: the clocks of the board the callback was last given,    *)
(*                 and its interrupt_flag                                  *)
(*   vblank_clock: the dot at which the last vblank was raised, and        *)
(*   vblank_before: the dot at which the one before it was (-1: none)      *)
(*   prev_bit: the counter bit at the last cycle the timer went through    *)
(*   div_bit: the counter bit when DIV was last written                    *)
(*   tac5: the clock and TIMA when TAC = 5 was written with div = 0 and    *)
(*         the last counter bit 0, no timer register written since         *)
(*   dma_src: the bytes read((v << 8) + i) gave before the last DMA write  *)
(*   writes: the writes so far, counted up to MaxTimerWrites               *)
(*   dbg: a check made only in a debug build failed in the last tick       *)
(*   start: the clock of the board when the caller took it over            *)
(*   ret_updated: the byte the last read returns if Ppu::update is run     *)
(*                immediately before it                                    *)
(*   p1: the byte last written to P1 (-1: none)                            *)
(*   data: the snapshot the last save_state wrote                          *)
(*   loaded: the bytes the last load_state was given                       *)
(*   err: what the last load_state returned                                *)
(***************************************************************************)
BootRom == [is_some |-> TRUE, rom |-> [i \in {0, 1, 255} |-> (49 + i) % 256]]

\* JitCompiler::new: no block is compiled
JitCompiler_new == [blocks |-> [address \in {} |-> 0]]

Cartridge0 == [rom |-> [i \in {0, 256} |-> 195], ram |-> ZeroArray]

\* GameBoy::new is given None for the boot ROM
NoBootRom == [is_some |-> FALSE, rom |-> ZeroArray]

obs_init ==
    [op |-> "new", address |-> 0, value |-> 0, ret |-> 0, panicked |-> FALSE, rw_edge |-> FALSE,
     vblank |-> FALSE, stat |-> FALSE, v_blank_calls |-> 0, v_blank_seen |-> <<>>, vblank_clock |-> -1, vblank_before |-> -1,
     prev_bit |-> FALSE, div_bit |-> FALSE, tac5 |-> <<>>, dma_src |-> <<>>, writes |-> 0, dbg |-> FALSE, start |-> 0, ret_updated |-> 0, p1 |-> -1,
     data |-> <<>>, loaded |-> <<>>, err |-> "Ok"]

\* the counter bit as the documentation of the timer gives it: ((div >> tap[tac & 3]) & (tac >> 2)) & 1, tap = {9, 3, 5, 7}
selected_bit(div, tac) ==
    LET tap == CASE tac % 4 = 0 -> 9 [] tac % 4 = 1 -> 3 [] tac % 4 = 2 -> 5 [] OTHER -> 7
    IN ((div \div (2 ^ tap)) % 2 = 1) /\ ((tac \div 4) % 2 = 1)

\* whether an operation with these flags ends the program in this build
Dead(r) == r.panic \/ (debug_build /\ r.dbg)

DoTick(count) ==
    /\ ~obs.panicked
    /\ \E r \in {tick(gb, count)} : \E dead \in {debug_build /\ r.dbg} :
          /\ gb' = IF dead THEN gb ELSE r.g
          /\ obs' = IF dead THEN [obs EXCEPT !.op = "tick", !.address = 0, !.value = count, !.panicked = TRUE]
                    ELSE [obs EXCEPT !.op = "tick", !.address = 0, !.value = count, !.vblank = r.v, !.stat = r.s,
                                     !.v_blank_calls = @ + r.calls,
                                     !.v_blank_seen = IF r.calls > 0 THEN <<r.seen.clock_count, r.seen.timer.last_clock_count, r.seen.ppu.next_clock_count, r.seen.interrupt_flag>> ELSE @,
                                     !.vblank_clock = IF r.v THEN r.vblank_clock ELSE @,
                                     !.vblank_before = IF r.v THEN obs.vblank_clock ELSE @,
                                     !.dbg = r.dbg,
                                     !.prev_bit = IF count > 0 THEN selected_bit(r.g.timer.div, r.g.timer.tac) ELSE @]
    /\ UNCHANGED <<debug_build, jit>>

\* the board once Ppu::update has run at its clock
updated(g) == [g EXCEPT !.ppu = Ppu_update(g).p]

DoRead(address) ==
    /\ ~obs.panicked
    /\ \E r \in {read(gb, address)} :
          /\ gb' = IF Dead(r) THEN gb ELSE r.g
          /\ obs' = [obs EXCEPT !.op = "read", !.address = address, !.value = 0, !.ret = r.ret, !.panicked = Dead(r), !.rw_edge = @ \/ r.edge,
                                !.ret_updated = read(updated(gb), address).ret]
    /\ UNCHANGED <<debug_build, jit>>

\* tac5 after a write
tac5_after(address, value) ==
    IF address \notin 65284..65287 THEN obs.tac5
    ELSE IF address = 65287 /\ value = 5 /\ gb.timer.div = 0 /\ ~gb.timer.last_counter_bit THEN <<gb.clock_count, gb.timer.tima>>
    ELSE <<>>

\* the bytes a DMA from value << 8 is to copy: what read gives for each of the 160 addresses
dma_source(value) == [i \in 0..159 |-> read(gb, value * 256 + i).ret]

DoWrite(address, value) ==
    /\ ~obs.panicked
    /\ \E r \in {write(gb, address, value)} :
          /\ gb' = IF Dead(r) THEN gb ELSE r.g
          /\ obs' = [obs EXCEPT !.op = "write", !.address = address, !.value = value, !.panicked = Dead(r), !.rw_edge = @ \/ r.edge,
                                !.tac5 = tac5_after(address, value), !.writes = IF @ < MaxTimerWrites THEN @ + 1 ELSE @,
                                !.div_bit = IF address = 65284 THEN selected_bit(gb.timer.div, gb.timer.tac) ELSE @,
                                !.dma_src = IF address = 65350 THEN dma_source(value) ELSE @,
                                !.p1 = IF address = 65280 THEN value ELSE @]
    /\ UNCHANGED <<debug_build, jit>>

DoReset ==
    /\ ~obs.panicked
    /\ gb' = reset(gb)
    /\ obs' = [obs_init EXCEPT !.op = "reset"]
    /\ UNCHANGED <<debug_build, jit>>

DoSave ==
    /\ ~obs.panicked
    /\ \E r \in {GameBoy_save_state(gb)} :
          /\ gb' = r.g
          /\ obs' = [obs EXCEPT !.op = "save", !.address = 0, !.value = 0, !.data = r.data]
    /\ UNCHANGED <<debug_build, jit>>

DoLoad(data) ==
    /\ ~obs.panicked
    /\ \E r \in {GameBoy_load_state(gb, data)} :
          /\ gb' = r.g
          /\ obs' = [obs EXCEPT !.op = "load", !.address = 0, !.value = 0, !.loaded = data, !.err = r.err]
    /\ UNCHANGED <<debug_build, jit>>

(***************************************************************************)
(* Spec: the board driven by ticks, reads and writes of the LCD registers, *)
(* and resets.                                                             *)
(***************************************************************************)
TickCounts == {255}

ReadAddresses == {65345, 65344}

Writes == {<<65344, 145>>, <<65344, 17>>, <<65345, 8>>}

Init ==
    /\ gb = GameBoy_new(BootRom, Cartridge0)
    /\ debug_build \in BOOLEAN
    /\ jit = JitCompiler_new
    /\ obs = obs_init

Tick == \E count \in TickCounts : gb.clock_count + count <= MaxClock /\ DoTick(count)

Read == \E address \in ReadAddresses : DoRead(address)

Write == \E w \in Writes : DoWrite(w[1], w[2])

Reset == gb.clock_count > 0 /\ DoReset

Next == Tick \/ Read \/ Write \/ Reset

Spec == Init /\ [][Next]_vars

C26_Step ==
    /\ (obs'.op = "tick" /\ ~obs'.panicked) => gb'.clock_count = gb.clock_count + obs'.value
    /\ obs'.op \in {"read", "write"} => gb'.clock_count = gb.clock_count
    /\ obs'.op \in {"tick", "read", "write"} => gb'.clock_count >= gb.clock_count

\* C26: a tick(n) that returns leaves clock_count greater by exactly n, a read or a write leaves it as it is, and
\* none of the three decreases it
C26_ClockMonotone == [][C26_Step]_vars

C26_Witness == obs.op = "tick" /\ obs.value = 255 /\ ~obs.panicked /\ gb.clock_count = 765

\* C23: after a reset the board compares equal to GameBoy::new of the same boot ROM and cartridge, and IF and IE
\* read as they do on that new board
C23_ResetIsNew ==
    obs.op = "reset" =>
        /\ GameBoy_eq(gb, GameBoy_new(BootRom, Cartridge0))
        /\ read(gb, 65295).ret = read(GameBoy_new(BootRom, Cartridge0), 65295).ret
        /\ read(gb, 65535).ret = read(GameBoy_new(BootRom, Cartridge0), 65535).ret

\* the parts of the Ppu that a disabled LCD is to leave alone
frozen(p) == <<p.ly, p.stat, p.state, p.ly_for_compare, p.background_fifo, p.sprite_fifo, p.sprite_buffer, p.sprite_buffer_len, p.screen>>

\* C1: after every tick that returns, the timer has been advanced to the clock of the board
\* (last_clock_count = clock_count) and the PPU to it or past it (next_clock_count >= clock_count),
\* with the LCD enabled or disabled
C1_TickCatchesUp ==
    (obs.op = "tick" /\ ~obs.panicked) => (gb.timer.last_clock_count = gb.clock_count /\ gb.ppu.next_clock_count >= gb.clock_count)

\* a tick has returned with the LCD enabled, on the second line or later, the PPU scheduled past the clock
C1_Witness ==
    obs.op = "tick" /\ ~obs.panicked /\ obs.value = 255 /\ TestBit(gb.ppu.lcdc, 7) /\ gb.ppu.ly > 0 /\ gb.ppu.next_clock_count > gb.clock_count

\* C3: a tick that saw the STAT line rise has set bit 1 of IF, and no Ppu::update made for a read
\* or a write of a PPU register has ever returned a VBlank or a STAT edge
C3_EdgesLatched ==
    /\ (obs.op = "tick" /\ ~obs.panicked /\ obs.stat) => TestBit(gb.interrupt_flag, 1)
    /\ ~obs.rw_edge

\* one step of C6
C6_Step ==
    /\ (obs'.op = "write" /\ obs'.address = 65344 /\ ~obs'.panicked /\ TestBit(gb.ppu.lcdc, 7) /\ ~TestBit(obs'.value, 7))
          => (gb'.ppu.ly = 0 /\ gb'.ppu.stat % 4 = 0)
    /\ (obs'.op = "tick" /\ ~obs'.panicked /\ ~TestBit(gb.ppu.lcdc, 7))
          => (frozen(gb'.ppu) = frozen(gb.ppu) /\ ~obs'.vblank /\ ~obs'.stat /\ gb'.interrupt_flag % 4 = gb.interrupt_flag % 4)

\* C6: a write of LCDC that clears bit 7 while it was set leaves LY = 0 and STAT mode 0, and a tick
\* of a board whose LCD is disabled leaves LY, STAT, the macro state, ly_for_compare, the FIFOs, the
\* sprite buffer and the screen as they were and reports neither a VBlank nor a STAT interrupt
C6_DisabledLcdFrozen == [][C6_Step]_vars

\* the LCD was disabled while the background FIFO held pixels, and a tick has gone by since
C6_Witness ==
    obs.op = "tick" /\ ~obs.panicked /\ obs.value = 255 /\ ~TestBit(gb.ppu.lcdc, 7) /\ ~is_empty(gb.ppu.background_fifo) /\ gb.ppu.curr_x > 0

\* C7: whenever bit 7 of LCDC is 0, LY = 0, the STAT mode is 0 and the macro state is 0; and a write
\* of LCDC with bit 7 set panics only if the LCD was enabled already, never in the enabling branch
C7_DisabledLcdAtRest ==
    /\ ~TestBit(gb.ppu.lcdc, 7) => (gb.ppu.ly = 0 /\ gb.ppu.stat % 4 = 0 /\ gb.ppu.state = 0)
    /\ (obs.panicked /\ obs.op = "write" /\ obs.address = 65344 /\ TestBit(obs.value, 7)) => TestBit(gb.ppu.lcdc, 7)

\* the LCD has just been enabled again, with no reset, after a run in which the STAT line rose
C7_Witness ==
    /\ obs.op = "write" /\ obs.address = 65344 /\ TestBit(obs.value, 7) /\ ~obs.panicked
    /\ TestBit(gb.ppu.lcdc, 7) /\ gb.ppu.state = 0 /\ gb.ppu.ly = 0 /\ gb.ppu.next_clock_count = gb.clock_count
    /\ TestBit(gb.interrupt_flag, 1) /\ gb.joypad_io = 255

\* the addresses that the PPU backs: VRAM, OAM and the registers 0xFF40..0xFF4B but DMA
PpuBacked == (32768..40959) \cup (65024..65183) \cup (65344..65349) \cup (65351..65355)

C12_Step ==
    (obs'.op = "read" /\ ~obs'.panicked /\ obs'.address \in PpuBacked)
       => /\ obs'.ret = obs'.ret_updated
          /\ obs'.address \in {65345, 65348} => gb'.ppu = Ppu_update(gb).p
          /\ obs'.address \notin {65345, 65348} => gb' = gb

C14_CoincidenceFlag ==
    (obs.op \in {"tick", "read", "write"} /\ ~obs.panicked) => (TestBit(gb.ppu.stat, 2) <=> gb.ppu.ly_for_compare = gb.ppu.lyc)

\* one step of C15
C15_Step ==
    /\ (obs'.op = "write" /\ obs'.address = 65345 /\ ~obs'.panicked)
          => /\ gb'.ppu.stat % 8 = gb.ppu.stat % 8
             /\ (gb'.ppu.stat \div 8) % 16 = (obs'.value \div 8) % 16
    /\ (obs'.op = "read" /\ obs'.address = 65345 /\ ~obs'.panicked) => TestBit(obs'.ret, 7)

\* C15: a write to STAT leaves the bits 0-2 of STAT as they were and gives the bits 3-6 the value written,
\* and a read of STAT returns a byte with bit 7 set
C15_StatWrite == [][C15_Step]_vars

(***************************************************************************)
(* SpecTimer: the timer registers of a board whose LCD stays disabled,     *)
(* ticked a few cycles at a time from three positions of the divider.      *)
(***************************************************************************)
\* the clocks at which the timer specification starts: a new board, and boards ticked up to
\* just before bits 3, 5, 7 and 9 of div fall together (1024) and just before div wraps (65536)
TimerStarts == {0, 65520}

TimerTicks == {1, 16}

TimerWrites == {<<65284, 0>>, <<65285, 255>>, <<65286, 253>>, <<65287, 4>>, <<65287, 5>>, <<65287, 6>>, <<65287, 7>>}

\* a new board after ticks that add up to c cycles
ticked_board(c) ==
    [GameBoy_new(BootRom, Cartridge0) EXCEPT !.clock_count = c, !.timer.div = c % 65536, !.timer.last_clock_count = c, !.ppu.next_clock_count = c]

InitTimer ==
    /\ \E c \in TimerStarts : gb = ticked_board(c) /\ obs = [obs_init EXCEPT !.value = c]
    /\ debug_build = FALSE
    /\ jit = JitCompiler_new

TimerTick == \E count \in TimerTicks : \E c \in TimerStarts : gb.clock_count \in c..(c + MaxTimerCycles - count) /\ DoTick(count)

TimerWrite == \E w \in TimerWrites : obs.writes < MaxTimerWrites /\ DoWrite(w[1], w[2])

NextTimer == TimerTick \/ TimerWrite

SpecTimer == InitTimer /\ [][NextTimer]_vars

\* the falling edges of the counter bit in the n cycles after div, of which the first compares with prev
edges(div, tac, prev, n) ==
    Cardinality({j \in 1..n : (IF j = 1 THEN prev ELSE selected_bit((div + j - 1) % 65536, tac)) /\ ~selected_bit((div + j) % 65536, tac)})

\* TIMA after e increments, each overflow from 0xFF reloading TMA
tima_after(tima, tma, e) == IF tima + e <= 255 THEN tima + e ELSE tma + ((e - (256 - tima)) % (256 - tma))

\* one step of C2: a tick of n cycles
C2_Step ==
    (obs'.op = "tick" /\ ~obs'.panicked)
       => LET n == obs'.value
              e == edges(gb.timer.div, gb.timer.tac, obs.prev_bit, n)
          IN /\ gb'.timer.div = (gb.timer.div + n) % 65536
             /\ gb'.timer.tima = tima_after(gb.timer.tima, gb.timer.tma, e)
             /\ gb'.timer.tma = gb.timer.tma /\ gb'.timer.tac = gb.timer.tac
             /\ TestBit(gb'.interrupt_flag, 2) = (TestBit(gb.interrupt_flag, 2) \/ gb.timer.tima + e > 255)

\* C2: a tick of n cycles adds n to div modulo 2^16 and adds to TIMA one for every cycle at which the
\* counter bit ((div >> tap[TAC & 3]) & (TAC >> 2) & 1, tap = {9, 3, 5, 7}) is 0 and was 1 at the cycle
\* before; an increment of TIMA = 0xFF reloads TMA instead, and then the tick sets bit 2 of IF
C2_TimerCycles == [][C2_Step]_vars

\* a tick has just overflowed TIMA: it holds the TMA written before and bit 2 of IF is set
C2_Witness ==
    obs.op = "tick" /\ gb.timer.tma = 253 /\ gb.timer.tima = 253 /\ TestBit(gb.interrupt_flag, 2) /\ gb.timer.tac % 4 = 0

\* one step of C9
C9_Step ==
    /\ (obs'.op = "write" /\ obs'.address = 65284) => read(gb', 65284).ret = 0
    /\ (obs.op = "write" /\ obs.address = 65284 /\ obs'.op = "tick" /\ obs'.value \in 1..15)
          => /\ gb'.timer.tima = tima_after(gb.timer.tima, gb.timer.tma, IF obs.div_bit THEN 1 ELSE 0)
             /\ TestBit(gb'.interrupt_flag, 2) = (TestBit(gb.interrupt_flag, 2) \/ (obs.div_bit /\ gb.timer.tima = 255))

\* C9: after a write of DIV a read of DIV gives 0; and the first tick after the write (of fewer cycles
\* than the 16 that the fastest tap needs to fall again) adds one to TIMA, with the reload and bit 2 of
\* IF on overflow, if the selected counter bit was 1 when DIV was written, and nothing if it was 0
C9_DivWrite == [][C9_Step]_vars

\* C10: from a write of TAC = 0x05 made with div = 0 and the last counter bit 0, and until another
\* timer register is written, TIMA after k ticked cycles is k / 16 increments later (reloads counted),
\* however the k cycles were split into ticks
C10_Tac5 ==
    obs.tac5 # <<>> => gb.timer.tima = tima_after(obs.tac5[2], gb.timer.tma, (gb.clock_count - obs.tac5[1]) \div 16)

\* 32 cycles after such a write made with TIMA = 255 and TMA = 253, the last of them ticked alone:
\* TIMA was reloaded at the 16th and incremented at the 32nd
C10_Witness ==
    /\ obs.tac5 # <<>> /\ obs.tac5[2] = 255 /\ gb.clock_count - obs.tac5[1] = 32 /\ obs.op = "tick" /\ obs.value = 1
    /\ gb.timer.tma = 253 /\ gb.timer.tima = 254

(***************************************************************************)
(* SpecDma: bytes stored in work RAM, high RAM and OAM, and OAM DMA        *)
(* transfers started from work RAM and from the page of the I/O registers. *)
(***************************************************************************)
\* the stores: the first and the last two bytes of the 160 at 0xC000, the last byte at 0xFF00, the last of OAM
DmaStores == {<<49152, 1>>, <<49310, 2>>, <<49311, 3>>, <<65439, 4>>, <<65183, 5>>}

\* the values written to 0xFF46
DmaStarts == {192, 255}

DmaStore == \E w \in DmaStores : DoWrite(w[1], w[2])

DmaStart == \E value \in DmaStarts : DoWrite(65350, value)

DmaTick == gb.clock_count + 4 <= MaxDmaClock /\ DoTick(4)

NextDma == DmaStore \/ DmaStart \/ DmaTick

SpecDma == Init /\ [][NextDma]_vars

\* C8: after write(0xFF46, v), a read of 0xFE00 + i gives, for every i in 0..159, the byte that
\* read((v << 8) + i) gave before the write: all 160 bytes are copied, the last one included
C8_DmaCopiesAll ==
    (obs.op = "write" /\ obs.address = 65350 /\ ~obs.panicked) => \A i \in 0..159 : read(gb, 65024 + i).ret = obs.dma_src[i]

(***************************************************************************)
(* SpecFrame: two frames of a board that enables the LCD once and never    *)
(* disables it, with and without a sprite, a scroll and the window, and    *)
(* with writes of SCX while the frame is drawn.                            *)
(***************************************************************************)
\* a new board ticked to the clock FrameStart
frame_board == ticked_board(FrameStart)

\* that board once OAM holds a sprite on lines 0..7 at x = 12 and SCX is 5
sprite_board == write(write(write(frame_board, 65024, 16).g, 65025, 20).g, 65347, 5).g

\* the values of LCDC that enable the LCD: the background alone, and with the sprites and the window
FrameEnables == {145, 179}

\* the writes made while the frame is drawn
FrameWrites == {<<65347, 3>>}

InitFrame ==
    /\ gb \in {frame_board, sprite_board}
    /\ debug_build = FALSE
    /\ jit = JitCompiler_new
    /\ obs = obs_init

FrameEnable == \E value \in FrameEnables : ~TestBit(gb.ppu.lcdc, 7) /\ DoWrite(65344, value)

FrameWrite == \E w \in FrameWrites : TestBit(gb.ppu.lcdc, 7) /\ gb.ppu.scx # w[2] /\ DoWrite(w[1], w[2])

FrameTick == TestBit(gb.ppu.lcdc, 7) /\ gb.clock_count + 255 <= FrameStart + MaxFrameClock /\ DoTick(255)

NextFrame == FrameEnable \/ FrameWrite \/ FrameTick

SpecFrame == InitFrame /\ [][NextFrame]_vars

\* the line that the PPU draws has its start in line_start_clock_count (not in states 0 and 1, before the first line)
in_visible_line(p) == TestBit(p.lcdc, 7) /\ p.state \in (2..14) \cup {24, 26}

C4_Step ==
    /\ (TestBit(gb.ppu.lcdc, 7) /\ gb.ppu.state \notin {0, 1} /\ gb'.ppu.line_start_clock_count # gb.ppu.line_start_clock_count)
          => gb'.ppu.line_start_clock_count - gb.ppu.line_start_clock_count = (IF gb'.ppu.ly = 0 THEN 11 * 456 ELSE 456)
    /\ in_visible_line(gb'.ppu)
          => (gb'.ppu.line_start_clock_count - ((FrameStart - 7) + 456 * gb'.ppu.ly)) % 70224 = 0

first_vblank == (FrameStart - 7) + 144 * 456 + 4

\* C5: while the LCD stays enabled the v-blank callback has been called once for every frame whose dot 4
\* of line 144 the board has gone past, and never otherwise; the tick that reports the vertical blank ends
\* with LY = 144, STAT mode 1 and bit 0 of IF set, it calls the callback once, and the callback is given
\* the board with the timer at the new clock and the PPU at it or past it
C5_VBlankOncePerFrame ==
    /\ obs.v_blank_calls = (IF gb.clock_count > first_vblank THEN ((gb.clock_count - first_vblank) - 1) \div 70224 + 1 ELSE 0)
    /\ (obs.op = "tick" /\ obs.vblank)
          => /\ gb.ppu.ly = 144 /\ gb.ppu.stat % 4 = 1 /\ TestBit(gb.interrupt_flag, 0)
             /\ (obs.vblank_clock - first_vblank) % 70224 = 0
             /\ obs.vblank_clock = gb.ppu.line_start_clock_count + 456 + 4
             /\ obs.vblank_before # -1 => obs.vblank_clock - obs.vblank_before = 70224
             /\ obs.v_blank_seen[1] = gb.clock_count /\ obs.v_blank_seen[2] = gb.clock_count /\ obs.v_blank_seen[3] >= gb.clock_count
    /\ (obs.op = "tick" /\ ~obs.vblank) => (gb.ppu.ly # 144 \/ gb.ppu.state # 25 \/ obs.vblank_clock = gb.ppu.line_start_clock_count + 460)

\* the tick that reports the vertical blank of the second frame
C5_Witness == obs.op = "tick" /\ obs.vblank /\ obs.v_blank_calls = 2 /\ obs.vblank_before # -1 /\ gb.ppu.ly = 144

(***************************************************************************)
(* SpecBurst: the timer registers are written, then the board is ticked    *)
(* for 2^20 cycles with no write in between.                               *)
(***************************************************************************)
BurstStarts == {65520}

\* the writes made before the burst: TAC and TIMA
BurstWrites == {<<65287, 4>>, <<65285, 255>>}

BurstTicks == {128}

InitBurst ==
    /\ \E c \in BurstStarts : gb = ticked_board(c) /\ obs = [obs_init EXCEPT !.start = c]
    /\ debug_build = FALSE
    /\ jit = JitCompiler_new

BurstWrite == \E w \in BurstWrites : gb.clock_count = obs.start /\ (IF w[1] = 65287 THEN gb.timer.tac ELSE gb.timer.tima) # w[2] /\ DoWrite(w[1], w[2])

BurstTick == \E count \in BurstTicks : (gb.clock_count + count) - obs.start <= MaxBurstCycles /\ DoTick(count)

NextBurst == BurstWrite \/ BurstTick

SpecBurst == InitBurst /\ [][NextBurst]_vars

IoWrites == {<<65295, 27>>, <<65295, 0>>, <<65280, 16>>, <<65280, 32>>, <<65360, 1>>, <<65360, 254>>,
             <<65287, 5>>, <<65285, 255>>, <<57345, 7>>, <<49153, 9>>}

IoReads == {65295, 65280, 57345, 49153}

\* the joypad byte: nothing pressed, Start and Right pressed, B and Up pressed
Joypads == {255, 126, 219}

InitIo ==
    /\ gb = GameBoy_new(BootRom, Cartridge0)
    /\ debug_build = FALSE
    /\ jit = JitCompiler_new
    /\ obs = obs_init

IoWrite == \E w \in IoWrites : obs.writes < MaxTimerWrites /\ DoWrite(w[1], w[2])

IoRead == \E address \in IoReads : DoRead(address)

IoTick == gb.clock_count + 16 <= MaxIoClock /\ DoTick(16)

\* the frontend stores the state of the buttons into the field joypad
IoPress ==
    /\ ~obs.panicked
    /\ \E joypad \in Joypads : joypad # gb.joypad /\ gb' = [gb EXCEPT !.joypad = joypad]
    /\ obs' = [obs EXCEPT !.op = "press", !.address = 0, !.value = 0]
    /\ UNCHANGED <<debug_build, jit>>

\* the CPU runs a jump to 0x0150: PC takes the address
IoRun ==
    /\ ~obs.panicked
    /\ gb.cpu.pc # 336 /\ gb' = [gb EXCEPT !.cpu.pc = 336]
    /\ obs' = [obs EXCEPT !.op = "run", !.address = 0, !.value = 0]
    /\ UNCHANGED <<debug_build, jit>>

NextIo == IoWrite \/ IoRead \/ IoTick \/ IoPress \/ IoRun

SpecIo == InitIo /\ [][NextIo]_vars

\* the bits of a that are bits of b too
Subset8(a, b) == \A n \in 0..7 : TestBit(a, n) => TestBit(b, n)

\* one step of C13
C13_Step ==
    /\ obs'.op = "tick" => Subset8(gb.interrupt_flag, gb'.interrupt_flag)
    /\ obs'.op = "read" => gb'.interrupt_flag = gb.interrupt_flag
    /\ ~Subset8(gb.interrupt_flag, gb'.interrupt_flag) => (obs'.op = "write" /\ obs'.address = 65295)

C16_IfUpperBits == (obs.op = "read" /\ obs.address = 65295 /\ ~obs.panicked) => obs.ret \div 32 = 7

\* C17: a read of P1 returns the bits 7-6 set and the select bits last written in the bits 5-4; with one
\* select bit 0 the bits 3-0 are the nibble of joypad of that row: bits 3..0 when bit 4 is 0, bits 7..4
\* when bit 5 is 0
C17_Joypad ==
    (obs.op = "read" /\ obs.address = 65280 /\ ~obs.panicked /\ obs.p1 # -1)
       => /\ obs.ret \div 64 = 3
          /\ (obs.ret \div 16) % 4 = (obs.p1 \div 16) % 4
          /\ (obs.p1 \div 16) % 4 = 2 => obs.ret % 16 = gb.joypad % 16
          /\ (obs.p1 \div 16) % 4 = 1 => obs.ret % 16 = gb.joypad \div 16

\* P1 read with the row of Start, Select, B and A selected while Start and Right are pressed
C17_Witness == obs.op = "read" /\ obs.address = 65280 /\ obs.p1 = 16 /\ gb.joypad = 126 /\ obs.ret = 215

\* offsets into ECHO RAM and bytes to write there
EchoOffsets == {0, 1, 7679}

\* C18: in every state, for k in 0..0x1DFF, read(0xE000 + k) returns what read(0xC000 + k) returns and
\* write(0xE000 + k, v) leaves the board that write(0xC000 + k, v) leaves, and none of them panics
C18_Echo ==
    \A k \in EchoOffsets :
       /\ read(gb, 57344 + k) = read(gb, 49152 + k) /\ ~read(gb, 57344 + k).panic
       /\ \A v \in {0, 7} : write(gb, 57344 + k, v) = write(gb, 49152 + k, v) /\ ~write(gb, 57344 + k, v).panic

\* a read of 0xE001 returns the byte that was written to 0xC001
C18_Witness == obs.op = "read" /\ obs.address = 57345 /\ obs.ret = 9 /\ ~obs.panicked /\ Get(gb.wram, 1) = 9

\* one step of C19
C19_Step ==
    obs'.op \in {"tick", "read", "write"}
       => /\ gb'.boot_rom_active => gb.boot_rom_active
          /\ (obs'.op = "write" /\ obs'.address = 65360 /\ TestBit(obs'.value, 0)) => ~gb'.boot_rom_active
          /\ (obs'.op = "write" /\ obs'.address = 65360 /\ ~TestBit(obs'.value, 0)) => gb'.boot_rom_active = gb.boot_rom_active

\* C19: over ticks, reads and writes boot_rom_active only goes from true to false: a write to 0xFF50 with
\* bit 0 set clears it, one with bit 0 clear leaves it as it is, and no step sets it
C19_BootRomMonotone == [][C19_Step]_vars

\* a write to 0xFF50 with bit 0 clear, made after the boot ROM was disabled, leaves it disabled
C19_Witness == obs.op = "write" /\ obs.address = 65360 /\ obs.value = 254 /\ ~gb.boot_rom_active /\ obs.writes >= 2

\* C20: a write to 0xFF50 with bit 0 set makes PC 0x0100 if the boot ROM was active, and leaves PC as it
\* is if the boot ROM was disabled already
C20_BootPc ==
    [][(obs'.op = "write" /\ obs'.address = 65360 /\ TestBit(obs'.value, 0) /\ ~obs'.panicked)
          => gb'.cpu.pc = (IF gb.boot_rom_active THEN 256 ELSE gb.cpu.pc)]_vars

(***************************************************************************)
(* SpecSave: snapshots.  The board is driven by ticks and writes, a        *)
(* snapshot of it is taken at any time, and the last snapshot is loaded    *)
(* into the board at any later time, as written or with the low byte of    *)
(* the timer's last_clock_count (element 21) or of the sound controller's  *)
(* last_clock (element 30) replaced.  A board whose load_state returned an  *)
(* error is discarded: nothing more is done with it.                       *)
(***************************************************************************)
MaxSaveClock == 300

SaveWrites == {<<65285, 3>>, <<65286, 7>>, <<65344, 145>>}

SaveEdits == {0, 21, 30}

\* the snapshot data with 77, the low byte of no clock the board is saved at, at element at (at = 0: as it is)
edited(data, at) == IF at = 0 THEN data ELSE [data EXCEPT ![at] = 77]

InitSave ==
    /\ gb = GameBoy_new(BootRom, Cartridge0)
    /\ debug_build = FALSE
    /\ jit = JitCompiler_new
    /\ obs = obs_init

SaveTick == obs.err = "Ok" /\ gb.clock_count + 150 <= MaxSaveClock /\ DoTick(150)

SaveWrite == \E w \in SaveWrites : obs.err = "Ok" /\ obs.writes < MaxTimerWrites /\ DoWrite(w[1], w[2])

Save == obs.err = "Ok" /\ DoSave

Load == \E at \in SaveEdits : obs.err = "Ok" /\ obs.data # <<>> /\ DoLoad(edited(obs.data, at))

\* the frontend makes a second board for the same cartridge, this one without a boot ROM, and keeps the snapshot
SaveNew ==
    /\ obs.err = "Ok" /\ obs.op = "save" /\ gb.boot_rom.is_some
    /\ gb' = GameBoy_new(NoBootRom, Cartridge0)
    /\ obs' = [obs EXCEPT !.op = "new", !.address = 0, !.value = 0]
    /\ UNCHANGED <<debug_build, jit>>

NextSave == SaveTick \/ SaveWrite \/ Save \/ Load \/ SaveNew

SpecSave == InitSave /\ [][NextSave]_vars

C21_Step ==
    (obs'.op = "load" /\ obs'.loaded = obs.data) => (obs'.err = "Ok" /\ GameBoy_save_state(gb').data = obs.data)

\* C21: whenever load_state is given the snapshot that save_state wrote, it returns Ok and a save_state of the
\* board it leaves writes the same snapshot again, byte for byte
C21_SaveLoadSave == [][C21_Step]_vars

C21_Witness ==
    /\ obs.op = "load" /\ obs.loaded = obs.data /\ obs.err = "Ok"
    /\ gb.timer.tima # gb.timer.tma /\ gb.timer.div > 255 /\ gb.ppu.state > 1 /\ gb.clock_count > 0
    /\ GameBoy_save_state(gb).data = obs.data

\* C22 as stated: load_state returns an error whenever the timer's last_clock_count or the sound controller's
\* last_clock in the snapshot differs from the snapshot's clock_count, and a load_state that returns Ok leaves
\* both equal to the clock_count of the board
C22_AnyDesync ==
    obs.op = "load" =>
        /\ (load_le(obs.loaded, 21, 8) # load_le(obs.loaded, 7, 8) \/ load_le(obs.loaded, 30, 8) # load_le(obs.loaded, 7, 8)) => obs.err # "Ok"
        /\ obs.err = "Ok" => (gb.timer.last_clock_count = gb.clock_count /\ gb.sound.last_clock = gb.clock_count)

\* C22, amended: load_state returns the desync error exactly when the sound controller's last_clock in the
\* snapshot differs from the snapshot's clock_count, and a load_state that returns Ok leaves the sound
\* controller's last_clock equal to the clock_count of the board; the timer's last_clock_count is not compared
C22_SoundDesync ==
    obs.op = "load" =>
        /\ obs.err = "SoundControllerDesync" <=> load_le(obs.loaded, 30, 8) # load_le(obs.loaded, 7, 8)
        /\ obs.err = "Ok" => gb.sound.last_clock = gb.clock_count

C22_Witness ==
    /\ obs.op = "load" /\ obs.err = "SoundControllerDesync"
    /\ load_le(obs.loaded, 30, 8) = 77 /\ load_le(obs.loaded, 7, 8) \in {150, 300}

(***************************************************************************)
(* SpecDots: the PPU dot by dot.  The board starts with the LCD off and    *)
(* OAM written, entry i with tile = i so that a sprite in the buffer tells *)
(* its OAM index; STAT, LYC, WX and WY are written, the LCD is enabled     *)
(* with the sprites on (8 or 16 lines tall, or with the window) and the    *)
(* board is ticked one cycle at a time through the first lines of the      *)
(* frame.  Or it starts late in the first frame, in line 150, with all the *)
(* STAT sources enabled (or LY = LYC alone) and LYC = 151, and is ticked   *)
(* one cycle at a time through the lines 151..153 into the second frame.   *)
(***************************************************************************)
MaxDotsClock == 1800

\* the ticks of 255 cycles from the write of LCDC to line 150
LateTicks == 269

\* the <<sy, sx>> of the OAM entries 0, 1, ...: thirteen entries on the lines 0..7, one of them at sx = 0 and
\* some at the same sx; and entries whose lines depend on the height of the sprites
OamLayouts ==
    {<<<<16, 20>>, <<16, 0>>, <<16, 12>>, <<16, 12>>, <<16, 40>>, <<16, 200>>, <<16, 8>>,
       <<16, 12>>, <<16, 30>>, <<16, 30>>, <<16, 50>>, <<16, 60>>, <<16, 9>>>>,
     <<<<17, 10>>, <<2, 10>>, <<10, 30>>, <<18, 20>>, <<9, 0>>, <<16, 20>>>>}

DotsEnables == {147, 151, 179}

\* STAT with its sources of modes 0 and 2 and of LY = LYC enabled, LYC, WY and WX
DotsWrites == {<<65345, 104>>, <<65349, 1>>, <<65354, 1>>, <<65355, 20>>}

\* the board g after the writes of sy, sx and tile of the OAM entries i - 1, i, ... of a layout
RECURSIVE oam_written(_, _, _)
\* the entries that follow, once the writes of one entry have left the board h
oam_written_rest(h, sprites, i) == IF h.clock_count >= 0 THEN oam_written(h, sprites, i) ELSE h

oam_written(g, sprites, i) ==
    IF i > Len(sprites) THEN g
    ELSE oam_written_rest(write(write(write(g, 65024 + 4 * (i - 1), sprites[i][1]).g, 65025 + 4 * (i - 1), sprites[i][2]).g,
                                65026 + 4 * (i - 1), i - 1).g, sprites, i + 1)

\* the board g after n ticks of 255 cycles: the first half of them, then the rest
RECURSIVE ticked(_, _)
ticked_rest(h, n) == IF h.clock_count >= 0 THEN ticked(h, n) ELSE h

ticked(g, n) == IF n = 0 THEN g ELSE IF n = 1 THEN tick(g, 255).g ELSE ticked_rest(ticked(g, n \div 2), n - (n \div 2))

\* a board in line 150 of its first frame: stat written to STAT, LYC = 151, the LCD enabled at FrameStart
late_board(stat) == ticked(write(write(write(frame_board, 65345, stat).g, 65349, 151).g, 65344, 145).g, LateTicks)

InitDots ==
    /\ \E g \in {oam_written(frame_board, sprites, 1) : sprites \in OamLayouts} \cup {late_board(120), late_board(64)} :
          gb = g /\ obs = [obs_init EXCEPT !.start = g.clock_count]
    /\ debug_build = FALSE
    /\ jit = JitCompiler_new

DotsWrite ==
    \E w \in DotsWrites :
        ~TestBit(gb.ppu.lcdc, 7) /\ obs.writes < MaxTimerWrites /\ read(gb, w[1]).ret % 128 # w[2] /\ DoWrite(w[1], w[2])

DotsEnable == \E value \in DotsEnables : ~TestBit(gb.ppu.lcdc, 7) /\ DoWrite(65344, value)

DotsTick == TestBit(gb.ppu.lcdc, 7) /\ gb.clock_count + 1 <= obs.start + MaxDotsClock /\ DoTick(1)

NextDots == DotsWrite \/ DotsEnable \/ DotsTick

SpecDots == InitDots /\ [][NextDots]_vars

\* the OAM entries that qualify for the line ly of p: sx > 0 and sy <= ly + 16 < sy + height
qualifying(p) ==
    {i \in 0..39 : LET s == oam_entry(p, i)
                   IN s.sx > 0 /\ s.sy <= p.ly + 16 /\ p.ly + 16 < s.sy + (IF TestBit(p.lcdc, 2) THEN 16 ELSE 8)}

\* the first 10 of them in OAM order
first_ten(p) == {i \in qualifying(p) : Cardinality({j \in qualifying(p) : j < i}) < 10}

\* the sprites that the buffer of p holds
buffered(p) == {p.sprite_buffer[k] : k \in 1..p.sprite_buffer_len}

C24_Step ==
    /\ gb'.ppu.sprite_buffer_len <= 10
    /\ (gb.ppu.state = 8 /\ gb'.ppu.state = 9) =>
          /\ gb'.ppu.sprite_buffer_len = Cardinality(first_ten(gb'.ppu))
          /\ buffered(gb'.ppu) = {oam_entry(gb'.ppu, i) : i \in first_ten(gb'.ppu)}

\* C24: the step of the OAM scan (state 8) leaves in the sprite buffer exactly the first min(10, q) of the q
\* OAM entries, in OAM order, with sx > 0 and sy <= LY + 16 < sy + height, and sprite_buffer_len never exceeds 10
C24_OamScan == [][C24_Step]_vars

C24_Witness ==
    /\ obs.op = "tick" /\ gb.ppu.state = 9 /\ gb.ppu.sprite_buffer_len = 10
    /\ Cardinality(qualifying(gb.ppu)) = 12
    /\ \E i \in 0..39 : i \notin qualifying(gb.ppu) /\ i < 10 /\ oam_entry(gb.ppu, i).sy = 16

C25_Step ==
    (/\ gb'.ppu.sprite_buffer_len = gb.ppu.sprite_buffer_len - 1
     /\ gb'.ppu.sprite_buffer = gb.ppu.sprite_buffer
     /\ gb'.ppu.sprite_fetching /\ ~gb.ppu.sprite_fetching) =>
        \A k \in 1..gb'.ppu.sprite_buffer_len :
            LET s == gb.ppu.sprite_buffer[gb.ppu.sprite_buffer_len]
                r == gb.ppu.sprite_buffer[k]
            IN s.sx < r.sx \/ (s.sx = r.sx /\ s.tile < r.tile)

\* C25: the sprite that the drawing takes from the tail of the sprite buffer has an x no greater than that of
\* every sprite still in the buffer, and an earlier OAM index (here its tile) than every one with the same x
C25_TailOrder == [][C25_Step]_vars

C25_Witness ==
    /\ obs.op = "tick" /\ gb.ppu.sprite_fetching /\ gb.ppu.sprite_buffer_len \in 1..9
    /\ gb.ppu.sprite_buffer[gb.ppu.sprite_buffer_len + 1].sx = gb.ppu.sprite_buffer[gb.ppu.sprite_buffer_len].sx
    /\ gb.ppu.sprite_buffer[gb.ppu.sprite_buffer_len + 1].tile < gb.ppu.sprite_buffer[gb.ppu.sprite_buffer_len].tile

\* the level of the STAT line as the documentation of the sources gives it
stat_level(p) ==
    \/ (p.stat % 4 = 0 /\ TestBit(p.stat, 3))
    \/ (p.stat % 4 = 2 /\ TestBit(p.stat, 5))
    \/ (p.stat % 4 = 1 /\ (TestBit(p.stat, 4) \/ TestBit(p.stat, 5)))
    \/ (p.ly_for_compare # 255 /\ p.ly_for_compare = p.lyc /\ TestBit(p.stat, 6))

C27_Step ==
    /\ LET c == update_stat([p |-> gb'.ppu, stat_interrupt |-> FALSE])
       IN c.p.stat_signal = stat_level(c.p)
    /\ (obs'.op = "tick" /\ TestBit(gb'.ppu.lcdc, 7) /\ gb'.ppu.next_clock_count = gb.ppu.next_clock_count) =>
          gb'.ppu.stat_signal = stat_level(gb'.ppu)

\* C27: update_stat leaves stat_signal equal to (mode 0 and bit 3) or (mode 2 and bit 5) or (mode 1 and (bit 4 or
\* bit 5)) or (ly_for_compare # 0xFF and ly_for_compare = LYC and bit 6): for update_stat run on the Ppu of every
\* state reached, and in the state that a tick leaves when its Ppu::update ran update_stat and no macro state
C27_StatSignal == [][C27_Step]_vars

C27_Witness ==
    /\ obs.op = "tick" /\ gb.ppu.stat % 4 = 2 /\ TestBit(gb.ppu.stat, 5) /\ gb.ppu.ly_for_compare # gb.ppu.lyc /\ gb.ppu.stat_signal
    /\ gb.ppu.state = 9 /\ gb.clock_count > gb.ppu.next_clock_count - 79

dot_153(g) == (g.clock_count - 1) - (g.ppu.line_start_clock_count + 4560)

\* C29 as stated: on line 153 ly_for_compare is 0xFF from dot 0, 153 from dot 6, 0 from dot 8 and from dot 12,
\* and LY reads 153 in dots 0..5 and 0 in the rest of the line
C29_Line153 ==
    (TestBit(gb.ppu.lcdc, 7) /\ obs.op = "tick" /\ dot_153(gb) \in 0..455) =>
        /\ gb.ppu.ly_for_compare = (IF dot_153(gb) < 6 THEN 255 ELSE IF dot_153(gb) < 8 THEN 153 ELSE 0)
        /\ read(gb, 65348).ret = (IF dot_153(gb) < 6 THEN 153 ELSE 0)

\* C29, amended: on line 153 ly_for_compare is 0xFF from dot 0, 153 from dot 6 and still 153 at dot 8, and 0
\* from dot 12, and LY reads 153 in dots 0..5 and 0 in the rest of the line
C29_Line153Late ==
    (TestBit(gb.ppu.lcdc, 7) /\ obs.op = "tick" /\ dot_153(gb) \in 0..455) =>
        /\ gb.ppu.ly_for_compare = (IF dot_153(gb) < 6 THEN 255 ELSE IF dot_153(gb) < 12 THEN 153 ELSE 0)
        /\ read(gb, 65348).ret = (IF dot_153(gb) < 6 THEN 153 ELSE 0)

C29_Witness ==
    /\ TestBit(gb.ppu.lcdc, 7) /\ obs.op = "tick" /\ dot_153(gb) = 8
    /\ gb.ppu.state = 21 /\ gb.ppu.ly_for_compare = 153 /\ gb.ppu.ly = 0

C30_Step ==
    /\ (~gb.ppu.is_in_window /\ gb'.ppu.is_in_window) =>
          /\ TestBit(gb'.ppu.lcdc, 5) /\ gb'.ppu.reach_window /\ gb'.ppu.wy <= gb'.ppu.ly /\ ~gb'.ppu.sprite_fetching
          /\ gb'.ppu.curr_x >= (IF gb'.ppu.wx > 7 THEN gb'.ppu.wx - 7 ELSE 0)
          /\ is_empty(gb'.ppu.background_fifo)
          /\ gb'.ppu.fetcher_x = 0 /\ gb'.ppu.fetcher_step = 0 /\ gb'.ppu.discarting = 0
          /\ (gb'.ppu.wx = 0 /\ gb'.ppu.wy = 0 /\ gb'.ppu.ly = 0) => gb'.ppu.curr_x = 0
    /\ (gb.ppu.is_in_window /\ ~gb'.ppu.is_in_window) => gb.ppu.state \in {5, 9}
    /\ (/\ TestBit(gb'.ppu.lcdc, 5) /\ gb'.ppu.wx = 0 /\ gb'.ppu.wy = 0 /\ gb'.ppu.ly = 0
        /\ gb'.ppu.state \in {24, 11, 12, 13} /\ gb'.ppu.curr_x >= 1) => gb'.ppu.is_in_window

\* C30: is_in_window turns true only with LCDC bit 5 set, reach_window latched (WY is a line already reached), no
\* sprite fetch in progress and curr_x >= max(0, WX - 7), and then the background FIFO is empty and fetcher_x,
\* fetcher_step and discarting are 0; once true it stays true until mode 3 of the next line starts, so it turns
\* true at most once on a line; with WX = 0 and WY = 0 it turns true at curr_x = 0 on line 0, before any pixel
C30_WindowTrigger == [][C30_Step]_vars

C30_Witness ==
    /\ obs.op = "tick" /\ gb.ppu.is_in_window /\ gb.ppu.wx = 20 /\ gb.ppu.wy = 1 /\ gb.ppu.ly = 1
    /\ gb.ppu.curr_x = 13 /\ gb.ppu.state = 24 /\ gb.ppu.fetcher_x = 0 /\ is_empty(gb.ppu.background_fifo)


(***************************************************************************)
(* SpecPixels: the pixel pipeline dot by dot on a board with tile data.    *)
(* Tile 0 (the background, the tile map is all zero) has the colours       *)
(* 0 0 2 2 1 1 3 3 on every row and the tiles 2 and 3 (the sprites) the    *)
(* colours 0 1 2 3 3 2 1 0; BGP, OBP0 and OBP1 are three different         *)
(* palettes.  OAM holds sprites that overlap, with the flags of priority,  *)
(* palette and flips.  The LCD is enabled and the board is ticked one      *)
(* cycle at a time through line 0 and line 1; while STAT is in mode 2 or   *)
(* mode 3 the program may clear the sprite-height bit of LCDC, and it may  *)
(* clear IF once an interrupt is requested.                                *)
(***************************************************************************)
MaxPixelsClock == 930

\* the bytes of VRAM: 8 rows of tile 0 and 16 rows of the tiles 2 and 3, low byte then high byte
TileWrites == [k \in 1..48 |-> IF k <= 16 THEN <<32768 + (k - 1), IF k % 2 = 1 THEN 15 ELSE 51>>
                                ELSE <<32768 + 32 + (k - 17), IF k % 2 = 1 THEN 90 ELSE 60>>]

\* BGP, OBP0 and OBP1
PaletteWrites == <<<<65351, 228>>, <<65352, 27>>, <<65353, 78>>>>

\* the writes of OAM for the entries <<sy, sx, tile, flags>>
oam_writes(sprites) == [k \in 1..(4 * Len(sprites)) |-> <<65024 + (k - 1), sprites[((k - 1) \div 4) + 1][((k - 1) % 4) + 1]>>]

\* ten sprites on the lines 0..7, each where its fetch costs the most dots, SCX = 255 and the window at WX = 60
LongLayout ==
    [sprites |-> <<<<16, 9, 2, 0>>, <<16, 17, 2, 0>>, <<16, 25, 2, 0>>, <<16, 33, 2, 0>>, <<16, 41, 2, 0>>, <<16, 49, 2, 0>>,
                   <<16, 57, 2, 0>>, <<16, 69, 2, 0>>, <<16, 77, 2, 0>>, <<16, 165, 2, 0>>>>,
     regs |-> <<<<65347, 255>>, <<65354, 0>>, <<65355, 60>>>>]

\* the OAM entries and the writes of SCX, WY, WX and STAT (the source of mode 0) of each board
PixelLayouts ==
    {[sprites |-> <<<<16, 12, 2, 0>>, <<16, 14, 2, 144>>, <<16, 4, 2, 32>>, <<16, 40, 2, 128>>, <<16, 41, 2, 16>>>>, regs |-> <<>>],
     [sprites |-> <<<<9, 20, 2, 64>>, <<9, 30, 2, 0>>, <<16, 50, 2, 64>>>>, regs |-> <<<<65347, 3>>>>],
     [sprites |-> <<<<16, 12, 2, 0>>, <<16, 100, 2, 128>>>>, regs |-> <<<<65354, 0>>, <<65355, 60>>>>],
     [sprites |-> <<<<16, 80, 2, 0>>>>, regs |-> <<<<65345, 8>>>>],
     LongLayout}

PixelEnables == {146, 147, 151, 179}

\* the board g after the writes lo..hi of the sequence ws: the first half of them, then the rest
RECURSIVE stored(_, _, _, _)
stored_rest(h, ws, lo, hi) == IF h.clock_count >= 0 THEN stored(h, ws, lo, hi) ELSE h

stored(g, ws, lo, hi) ==
    IF lo > hi THEN g
    ELSE IF lo = hi THEN write(g, ws[lo][1], ws[lo][2]).g
    ELSE stored_rest(stored(g, ws, lo, (lo + hi) \div 2), ws, ((lo + hi) \div 2) + 1, hi)

\* the writes that fill VRAM, the palettes, OAM and the registers of a layout
board_writes(layout) == TileWrites \o PaletteWrites \o oam_writes(layout.sprites) \o layout.regs

pixel_board(layout) == stored(frame_board, board_writes(layout), 1, Len(board_writes(layout)))

\* a board whose LCD was on with the sprites off until the OAM scan of line 1 had filled the sprite buffer,
\* and was then turned off: the first line after the next enable has no OAM scan and finds that buffer
stale_board == write(ticked(write(pixel_board(LongLayout), 65344, 145).g, 2), 65344, 17).g

InitPixels ==
    /\ \E g \in {pixel_board(layout) : layout \in PixelLayouts} \cup {stale_board} : gb = g /\ obs = [obs_init EXCEPT !.start = g.clock_count]
    /\ debug_build = FALSE
    /\ jit = JitCompiler_new

PixelsEnable == \E value \in PixelEnables : ~TestBit(gb.ppu.lcdc, 7) /\ DoWrite(65344, value)

\* the program clears bit 2 of LCDC while STAT reads mode 2 or mode 3
PixelsWrite == TestBit(gb.ppu.lcdc, 7) /\ gb.ppu.stat % 4 \in {2, 3} /\ TestBit(gb.ppu.lcdc, 2) /\ DoWrite(65344, gb.ppu.lcdc - 4)

PixelsTick == TestBit(gb.ppu.lcdc, 7) /\ gb.clock_count + 1 <= obs.start + MaxPixelsClock /\ DoTick(1)

\* the program clears IF after an interrupt
PixelsServe == gb.interrupt_flag # 0 /\ DoWrite(65295, 0)

NextPixels == PixelsEnable \/ PixelsWrite \/ PixelsServe \/ PixelsTick

SpecPixels == InitPixels /\ [][NextPixels]_vars

\* the number of pixels a FIFO holds
fifo_len(f) == (f.head + 16 - f.tail) % 16

\* a sprite is pushed in the step from this state: the sprite fetcher is at its step 3 and this dot is its turn
pushing(p) == TestBit(p.lcdc, 7) /\ p.state = 24 /\ p.sprite_fetching /\ p.fetcher_step = 3 /\ ~p.fetcher_cycle

\* the sprite that is fetched
fetched(p) == p.sprite_buffer[p.sprite_buffer_len + 1]

\* the number of pixels of the fetched sprite that are on the screen: 8 - cut_off
visible(p) == IF fetched(p).sx < 8 THEN fetched(p).sx ELSE 8

\* the pixel of the fetched sprite for the position k of the FIFO, counted from its tail
new_pixel(p, k) ==
    LET x == (visible(p) - 1) - k
        low == IF TestBit(fetched(p).flags, 5) THEN reverse_bits(p.fetch_tile_data_low) ELSE p.fetch_tile_data_low
        hight == IF TestBit(fetched(p).flags, 5) THEN reverse_bits(p.fetch_tile_data_hight) ELSE p.fetch_tile_data_hight
    IN ((hight \div (2 ^ x)) % 2) * 2 + ((low \div (2 ^ x)) % 2) + 8 * Bit(fetched(p).flags, 7) + 16 * Bit(fetched(p).flags, 4)

\* the pixel at the position k of the FIFO f, counted from the tail at
at_position(f, at, k) == f.queue[((at + k) % 16) + 1]

C31_Step ==
    (pushing(gb.ppu) /\ obs'.op = "tick")
        => LET f == gb.ppu.sprite_fifo
               n == fifo_len(f)
               w == visible(gb.ppu)
           IN /\ \A k \in 0..15 :
                    at_position(gb'.ppu.sprite_fifo, f.tail, k) =
                        IF k < n /\ at_position(f, f.tail, k) % 4 # 0 THEN at_position(f, f.tail, k)
                        ELSE IF k < w THEN new_pixel(gb.ppu, k)
                        ELSE at_position(f, f.tail, k)
              /\ (gb'.ppu.sprite_fifo.head + 16 - f.tail) % 16 = (IF n > w THEN n ELSE w)

\* C31: push_sprite keeps every entry of the sprite FIFO whose colour is not 0, replaces the entries of
\* colour 0 by the pixel of the new sprite for that position and appends the pixels beyond the length
\* of the FIFO: the length after the push is max(length before, 8 - cut_off).
C31_PushSprite == [][C31_Step]_vars

\* a push has merged two sprites: the FIFO holds a pixel of the first sprite (no flags, colour not 0),
\* right after it a pixel of the second sprite (both flags, colour not 0) where the first had colour 0,
\* and at its end the pixels of the second that were appended
C31_Witness ==
    LET f == gb.ppu.sprite_fifo
    IN /\ obs.op = "tick" /\ gb.ppu.state = 24 /\ ~gb.ppu.sprite_fetching /\ gb.ppu.fetcher_step = 0 /\ gb.ppu.fetcher_cycle
       /\ fifo_len(f) = 7
       /\ \E k \in 0..4 : at_position(f, f.tail, k) \in 1..3 /\ at_position(f, f.tail, k + 1) \in 25..27
       /\ at_position(f, f.tail, 6) = 24

\* the shade that a palette gives to a colour
shade(palette, color) == (palette \div (2 ^ (2 * color))) % 4

\* the pixel that was popped last from the FIFO f
popped(f) == f.queue[((f.tail + 15) % 16) + 1]

C32_Step ==
    (TestBit(gb.ppu.lcdc, 7) /\ gb.ppu.state = 24 /\ obs'.op = "tick" /\ gb'.ppu.curr_x = gb.ppu.curr_x + 1)
        => LET p == gb.ppu
               present == ~is_empty(p.sprite_fifo) \/ pushing(p)
               pixel == gb'.ppu.background_fifo.queue[p.background_fifo.tail + 1]
               sprite == gb'.ppu.sprite_fifo.queue[p.sprite_fifo.tail + 1]
               bcolor == IF TestBit(p.lcdc, 0) THEN pixel % 4 ELSE 0
               of_sprite == present /\ sprite % 4 # 0 /\ ~(TestBit(sprite, 3) /\ bcolor # 0)
               emitted == Get(gb'.ppu.screen, p.ly * 160 + p.curr_x)
           IN /\ emitted = IF of_sprite THEN shade(IF TestBit(sprite, 4) THEN p.obp1 ELSE p.obp0, sprite % 4) ELSE shade(p.bgp, bcolor)
              /\ \A i \in DOMAIN gb'.ppu.screen : gb'.ppu.screen[i] \in 0..3

\* C32: each pixel put on the screen is the OBP0/OBP1 shade of the sprite colour exactly when a sprite pixel
\* is present, its colour is not 0 and not (its priority bit is set and the background colour is not 0),
\* the background colour being 0 when LCDC bit 0 is clear; else it is the BGP shade of the background
\* colour; every value of the screen is in 0..3.
C32_PixelOutput == [][C32_Step]_vars

\* a pixel was put on the screen under a sprite pixel with the priority bit and a colour, over a
\* background colour that is not 0: the screen has the BGP shade, which is not the shade of the sprite
C32_Witness ==
    LET p == gb.ppu
        sprite == popped(p.sprite_fifo)
        pixel == popped(p.background_fifo)
    IN /\ obs.op = "tick" /\ TestBit(p.lcdc, 7) /\ TestBit(p.lcdc, 0) /\ p.state = 24 /\ p.curr_x > 0
       /\ ~is_empty(p.sprite_fifo) /\ p.sprite_fifo.tail > 0 /\ p.background_fifo.tail > 0
       /\ TestBit(sprite, 3) /\ sprite % 4 # 0 /\ pixel % 4 # 0
       /\ Get(p.screen, p.ly * 160 + (p.curr_x - 1)) = shade(p.bgp, pixel % 4)
       /\ shade(p.bgp, pixel % 4) # shade(IF TestBit(sprite, 4) THEN p.obp1 ELSE p.obp0, sprite % 4)

\* the pairs <<m, n>> of a tick of m + n cycles made in two parts
Splits == {<<1, 1>>, <<20, 200>>, <<100, 155>>}

\* what the claim compares of a board: the clock, the timer, the PPU without its latch of the STAT line, and IF
compared(g) == <<g.clock_count, g.timer, [g.ppu EXCEPT !.stat_signal = FALSE], g.interrupt_flag>>

\* C33: tick(m) followed by tick(n) leaves the clock, the timer, the PPU and IF as tick(m + n) does and
\* calls the v-blank callback as often, for m + n <= 255.
C33_SplitTick ==
    \A s \in Splits :
        \A a \in {tick(gb, s[1])} : \A b \in {tick(a.g, s[2])} : \A c \in {tick(gb, s[1] + s[2])} :
            compared(b.g) = compared(c.g) /\ a.calls + b.calls = c.calls

\* the dots from the start of the line to the state that Ppu::update is in
elapsed(p) == p.next_clock_count - p.line_start_clock_count

\* C34: every Ppu::update returns with the PPU caught up with the clock, and on every visible line the
\* drawing (state 24) ends early enough that the dots elapsed at state 13 are at most 454, so that
\* 456 - elapsed - 2 does not underflow; also on the first line after the LCD is enabled.
C34_LineFits ==
    (TestBit(gb.ppu.lcdc, 7) /\ obs.op = "tick")
        => /\ gb.ppu.next_clock_count >= gb.clock_count
           /\ gb.ppu.state = 24 => elapsed(gb.ppu) <= 454 - 13
           /\ gb.ppu.state = 13 => elapsed(gb.ppu) \in 0..454

\* the longest line met: state 13 of the first line after an enable, which took the ten sprites of the
\* stale buffer, the discarded pixels and the restart of the window
C34_Witness ==
    /\ obs.op = "tick" /\ gb.ppu.state = 13 /\ gb.ppu.ly = 0 /\ gb.ppu.sprite_buffer_len = 0 /\ gb.ppu.is_in_window
    /\ elapsed(gb.ppu) >= 424

\* the sprite whose row the step from this state computes, or <<>>: the one that is being fetched when the
\* fetcher has its turn, or the one whose fetch starts in this dot
computed(p) ==
    IF ~(TestBit(p.lcdc, 7) /\ p.state = 24) THEN <<>>
    ELSE IF p.sprite_fetching THEN (IF p.fetcher_cycle THEN <<>> ELSE <<fetched(p)>>)
    ELSE IF p.discarting = 0 /\ p.sprite_buffer_len # 0 /\ TestBit(p.lcdc, 1) /\ p.sprite_buffer[p.sprite_buffer_len].sx <= p.curr_x + 8
    THEN <<p.sprite_buffer[p.sprite_buffer_len]>>
    ELSE <<>>

C35_Step ==
    (computed(gb.ppu) # <<>> /\ obs'.op = "tick")
        => LET sprite == computed(gb.ppu)[1]
               height == IF TestBit(gb.ppu.lcdc, 2) THEN 16 ELSE 8
               row == (gb.ppu.ly + 16) - sprite.sy
               py == IF TestBit(sprite.flags, 6) THEN (height - 1) - row ELSE row
           IN row >= 0 /\ py \in 0..(height - 1)

\* C35: the row py of every sprite that is fetched is within 0..height-1 and its computation in 8 bits
\* does not underflow, whatever was written to LCDC between the OAM scan and the fetch.
C35_SpriteRow == [][C35_Step]_vars

C36_Step ==
    /\ fifo_len(gb.ppu.background_fifo) <= 8 /\ fifo_len(gb.ppu.sprite_fifo) <= 8
    /\ fifo_len(gb'.ppu.background_fifo) <= 8 /\ fifo_len(gb'.ppu.sprite_fifo) <= 8
    /\ (TestBit(gb.ppu.lcdc, 7) /\ gb.ppu.state = 24 /\ obs'.op = "tick" /\ gb'.ppu.background_fifo.head # gb.ppu.background_fifo.head)
          => \/ is_empty(gb.ppu.background_fifo) /\ gb'.ppu.background_fifo.head = (gb.ppu.background_fifo.head + 8) % 16
             \/ gb'.ppu.background_fifo.head = 0 /\ gb'.ppu.background_fifo.tail = 0
    /\ (pushing(gb.ppu) /\ obs'.op = "tick") => fifo_len([gb'.ppu.sprite_fifo EXCEPT !.tail = gb.ppu.sprite_fifo.tail]) <= 8

\* C36: each of the two pixel FIFOs holds at most 8 pixels in every state: the background fetcher pushes its
\* 8 pixels only into an empty FIFO and a push of a sprite leaves at most 8 pixels in the sprite FIFO, so
\* that head never meets tail after a push.
C36_FifoLength == [][C36_Step]_vars

\* both FIFOs hold 7 pixels: the sprite FIFO after the push of a sprite and the pop of one pixel in the same
\* dot, the background FIFO after the fetcher has refilled it
C36_Witness ==
    /\ obs.op = "tick" /\ gb.ppu.state = 24 /\ ~gb.ppu.sprite_fetching
    /\ fifo_len(gb.ppu.sprite_fifo) = 7 /\ fifo_len(gb.ppu.background_fifo) = 7

\* C37: a snapshot restores the board that the CPU sees: after load_state of the snapshot of the board into
\* another board made from the same boot ROM and cartridge, the reads of IF (0xFF0F), IE (0xFFFF) and of the
\* serial registers (0xFF01, 0xFF02) return what they return on the board that was saved.
C37_SnapshotRestoresIo ==
    \A s \in {GameBoy_save_state(gb)} : \A l \in {GameBoy_load_state(GameBoy_new(BootRom, Cartridge0), s.data)} :
        /\ l.err = "Ok"
        /\ \A address \in {65295, 65535, 65281, 65282} : read(l.g, address).ret = read(s.g, address).ret

\* C38: in every state reached by new, reset, tick, write and load_state of a snapshot that save_state
\* wrote, boot_rom_active implies that the board has a boot ROM, so that a read below 0x100 does not
\* panic for a missing boot ROM.
C38_BootRomPresent == (gb.boot_rom_active => gb.boot_rom.is_some) /\ ~read(gb, 0).panic

\* the select values a write of P1 can leave in bits 4-5
Selects == {0, 16, 32, 48}

\* C39: with no button pressed a read of P1 returns 0xF in bits 3-0 whatever the select bits are, also
\* with the select value that reset leaves; and a bit 3-0 reads 0 only if a button of that bit is pressed
\* in a row that is selected (bit 4 = 0: the low nibble of joypad, bit 5 = 0: the high nibble)
C39_Released ==
    /\ \A sel \in Selects :
          \E r \in {read(write(gb, 65280, sel).g, 65280).ret} :
              /\ gb.joypad = 255 => r % 16 = 15
              /\ \A k \in 0..3 :
                    ~TestBit(r, k) => \/ ~TestBit(sel, 4) /\ ~TestBit(gb.joypad, k)
                                      \/ ~TestBit(sel, 5) /\ ~TestBit(gb.joypad, k + 4)
    /\ gb.joypad = 255 => read(reset(gb), 65280).ret % 16 = 15

(***************************************************************************)
(* SpecJit: JitCompiler::interpret_block called over and over on a board   *)
(* without boot ROM whose cartridge holds a countdown loop:                *)
(*    0100  NOP; JP 0150                                                   *)
(*    0150  DEC A; JR NZ,0150; NOP; JP C000                                *)
(*    0158  HALT; JR 0158                                                  *)
(* and whose work RAM holds, outside the ROM where no block is compiled,   *)
(*    C000  JP 0158                                                        *)
(* A is given at the start and the timer runs at its fastest rate, or not  *)
(* at all, so that the timer interrupt falls at every distance from the    *)
(* blocks.  Of the CPU the model keeps pc, the run state, A and the Z      *)
(* flag.  IE is 0: the interrupt is flagged and never taken.               *)
(***************************************************************************)
MaxJitClock == 240

\* the clocks that next_interrupt looks ahead
InterruptHorizon == 80

JitRom ==
    [i \in {256, 257, 258, 259, 336, 337, 338, 339, 340, 341, 342, 344, 345, 346} |->
        CASE i = 256 -> 0 [] i = 257 -> 195 [] i = 258 -> 80 [] i = 259 -> 1
          [] i = 336 -> 61 [] i = 337 -> 32 [] i = 338 -> 253 [] i = 339 -> 0
          [] i = 340 -> 195 [] i = 341 -> 0 [] i = 342 -> 192
          [] i = 344 -> 118 [] i = 345 -> 24 [] i = 346 -> 253]

JitCartridge == [rom |-> [i \in {i \in DOMAIN JitRom : JitRom[i] # 0} |-> JitRom[i]], ram |-> ZeroArray]

\* consts::CLOCK: the cycles of an instruction, of a conditional one when it does not branch
CLOCK(op) == CASE op = 32 -> 8 [] op = 24 -> 12 [] op = 195 -> 16 [] OTHER -> 4

\* consts::LEN: the bytes of an instruction
LEN(op) == CASE op \in {32, 24} -> 2 [] op = 195 -> 3 [] OTHER -> 1

\* the offset of a relative jump: a signed byte
signed(e) == IF e >= 128 THEN e - 256 ELSE e

\* Cursor::get_op: the three bytes at pc, the first the opcode
get_op(g, pc) == [k \in 0..2 |-> read(g, (pc + k) % 65536).ret]

\* the address that the jump instruction op at pc names (None: is_some = FALSE)
jump_target(pc, op) ==
    CASE op[0] \in {24, 32} -> [is_some |-> TRUE, pc |-> (pc + 2 + signed(op[1])) % 65536]
      [] op[0] = 195 -> [is_some |-> TRUE, pc |-> op[1] + 256 * op[2]]
      [] OTHER -> [is_some |-> FALSE, pc |-> 0]

\* disassembler::compute_step: the cursor after the instruction (None after an unconditional jump) and the jump it may take
compute_step(len, pc, op) ==
    [step |-> [is_some |-> op[0] \notin {24, 195}, pc |-> (pc + len) % 65536], jump |-> jump_target(pc, op)]

\* the address the instruction op jumps to with the flags of cpu, if it jumps
will_jump(cpu, op) == IF op[0] = 32 /\ cpu.z THEN [is_some |-> FALSE, pc |-> 0] ELSE jump_target(cpu.pc, op)

\* Interpreter::will_jump_to: the address the next instruction jumps to, if it jumps
will_jump_to(g) == will_jump(g.cpu, get_op(g, g.cpu.pc))

\* an enabled interrupt is flagged
pending(g) == And8(And8(g.interrupt_flag, g.interrupt_enabled), 31) # 0

\* the CPU after the instruction op and the cycles the instruction takes; a CPU that is not Running waits four cycles
executed(cpu, op, is_pending) ==
    LET next == (cpu.pc + LEN(op[0])) % 65536
        to == jump_target(cpu.pc, op).pc
    IN CASE cpu.state # "Running" -> [cpu |-> cpu, cycles |-> 4]
         [] op[0] = 0 -> [cpu |-> [cpu EXCEPT !.pc = next], cycles |-> 4]
         [] op[0] = 61 -> [cpu |-> [cpu EXCEPT !.pc = next, !.a = (@ + 255) % 256, !.z = (cpu.a = 1)], cycles |-> 4]
         [] op[0] = 32 -> IF cpu.z THEN [cpu |-> [cpu EXCEPT !.pc = next], cycles |-> 8] ELSE [cpu |-> [cpu EXCEPT !.pc = to], cycles |-> 12]
         [] op[0] = 24 -> [cpu |-> [cpu EXCEPT !.pc = to], cycles |-> 12]
         [] op[0] = 195 -> [cpu |-> [cpu EXCEPT !.pc = to], cycles |-> 16]
         [] op[0] = 118 -> [cpu |-> [cpu EXCEPT !.pc = next, !.state = IF is_pending THEN "HaltBug" ELSE "Halt"], cycles |-> 4]
         [] OTHER -> [cpu |-> [cpu EXCEPT !.pc = next, !.state = "Stopped"], cycles |-> 4]

\* the board with the CPU of e, ticked by the cycles of e
ran(g, e) == tick([g EXCEPT !.cpu = e.cpu], e.cycles).g

\* a CPU that was halted wakes when an enabled interrupt is flagged
woken(state, h) == IF state = "Halt" /\ pending(h) THEN [h EXCEPT !.cpu.state = "Running"] ELSE h

\* Interpreter::interpret_op: one instruction, the board ticked by its cycles
interpret_op(g) == woken(g.cpu.state, ran(g, executed(g.cpu, get_op(g, g.cpu.pc), pending(g))))

\* the clock of the first of the cycles at, if there is one
soonest(clock_count, at) == IF at = {} THEN clock_count + InterruptHorizon ELSE clock_count + (CHOOSE k \in at : \A j \in at : k <= j)

\* GameBoy::next_interrupt: the clock at which the timer flags its interrupt next, looked for InterruptHorizon clocks ahead
next_interrupt(g) == soonest(g.clock_count, {k \in 1..InterruptHorizon : tick([g EXCEPT !.interrupt_flag = 0], k).g.interrupt_flag # 0})

RECURSIVE traced(_, _, _, _, _)
\* the body of the loop of trace_a_block, for the instruction op of the cursor at pc
traced_next(g, start_address, pc, length, max_clock_cycles, op) ==
    IF \/ compute_step(LEN(op[0]), pc, op).jump.is_some
       \/ op[0] \in {118, 192, 200, 201, 208, 216, 217}
       \/ ~compute_step(LEN(op[0]), pc, op).step.is_some
    THEN [start_address |-> start_address, length |-> length + LEN(op[0]), max_clock_cycles |-> max_clock_cycles + CLOCK(op[0])]
    ELSE traced(g, start_address, compute_step(LEN(op[0]), pc, op).step.pc, length + LEN(op[0]), max_clock_cycles + CLOCK(op[0]))

\* the loop of trace_a_block: the instructions from the cursor on, to the first that may jump, returns or halts
traced(g, start_address, pc, length, max_clock_cycles) ==
    traced_next(g, start_address, pc, length, max_clock_cycles, get_op(g, pc))

\* trace_a_block with no cycles added for a branch
trace_a_block_exact(g, start_address) == traced(g, start_address, start_address, 0, 0)

\* trace_a_block: the start, the length and the most cycles of the block at start_address
trace_a_block(g, start_address) == [traced(g, start_address, start_address, 0, 0) EXCEPT !.max_clock_cycles = @ + 12]

\* BlockCompiler::compile_block: the block that starts at pc
compile_block(g) == trace_a_block(g, g.cpu.pc)

RECURSIVE Block_call(_, _)
\* the compiled code after an instruction left the board h: it goes on while h is in the block, past the instruction
Block_next(g, block, h) ==
    IF h.cpu.state # "Running" \/ h.cpu.pc <= g.cpu.pc \/ h.cpu.pc >= block.start_address + block.length
    THEN h ELSE Block_call(h, block)

\* Block::call: the compiled code does what the interpreter does with the instructions of the block
Block_call(g, block) == Block_next(g, block, interpret_op(g))

\* Cartridge::curr_bank: the cartridge of the model has the two banks of a plain ROM
curr_bank(cartridge) == 1

\* Address::from_pc: the bank and the address of code in the ROM; None elsewhere
Address_from_pc(bank, pc) ==
    IF pc < 16384 THEN [is_some |-> TRUE, address |-> <<0, pc>>]
    ELSE IF pc < 32768 THEN [is_some |-> TRUE, address |-> <<bank, pc>>]
    ELSE [is_some |-> FALSE, address |-> <<0, 0>>]

\* JitCompiler::get_block: the block is jit.blocks[address]; compiled: compile_block was called
get_block(j, g) ==
    LET a == Address_from_pc(curr_bank(g.cartridge), g.cpu.pc)
    IN IF ~a.is_some THEN [jit |-> j, is_some |-> FALSE, address |-> a.address, compiled |-> FALSE]
       ELSE [jit |-> [j EXCEPT !.blocks = IF a.address \in DOMAIN @ THEN @   \* or_insert_with
                                          ELSE [x \in (DOMAIN @) \cup {a.address} |-> IF x \in DOMAIN @ THEN @[x] ELSE compile_block(g)]],
             is_some |-> TRUE, address |-> a.address, compiled |-> a.address \notin DOMAIN j.blocks]

RECURSIVE interpreted(_, _)
\* the end of the body of the loop; ops: for each instruction run, whether it was to jump and the state it left
interpreted_next(ops, have_jump, h) ==
    IF have_jump \/ h.cpu.state # "Running"
    THEN [g |-> h, ops |-> Append(ops, [have_jump |-> have_jump, state |-> h.cpu.state])]
    ELSE interpreted(h, Append(ops, [have_jump |-> have_jump, state |-> h.cpu.state]))

\* the loop of the interpreter in interpret_block
interpreted(g, ops) == interpreted_next(ops, will_jump_to(g).is_some, interpret_op(g))

\* what interpret_block leaves; path, ops, next_interrupt, block: what it did, for the observer; dbg: a debug assertion fails
outcome(path, b, ni, start_clock, r) ==
    [g |-> r.g, jit |-> b.jit, path |-> path, ops |-> r.ops, next_interrupt |-> ni, has_block |-> b.is_some,
     block |-> IF b.is_some THEN b.jit.blocks[b.address] ELSE 0, compiled |-> b.compiled,
     dbg |-> path = "block" /\ (~(r.g.clock_count - start_clock <= b.jit.blocks[b.address].max_clock_cycles) \/ r.g.clock_count = start_clock)]

\* the match of interpret_block on the block b, with next_interrupt ni
dispatched(g, b, ni) ==
    IF b.is_some /\ g.cpu.state = "Running" /\ g.clock_count + b.jit.blocks[b.address].max_clock_cycles + 4 < ni
    THEN outcome("block", b, ni, g.clock_count, [g |-> Block_call(g, b.jit.blocks[b.address]), ops |-> <<>>])
    ELSE outcome("interpreter", b, ni, g.clock_count, interpreted(g, <<>>))

\* JitCompiler::interpret_block
interpret_block(j, g) == dispatched(g, get_block(j, g), next_interrupt(g))

\* what the observer of SpecJit keeps of the last call, and how often each address was compiled
jit_obs_init ==
    [op |-> "new", panicked |-> FALSE, start |-> 0, pc |-> 0, state |-> "Running", start_clock |-> 0, path |-> "", ops |-> <<>>,
     next_interrupt |-> 0, has_block |-> FALSE, block |-> 0, compiled |-> FALSE, compiles |-> [address \in {} |-> 0]]

\* the register A at the start
JitCounts == {1, 2, 3}

\* TAC and TIMA at the start (TMA is 0xFC: an interrupt every 64 cycles), or the timer left off
JitTimers == {<<5, 252>>, <<5, 253>>, <<5, 254>>, <<5, 255>>, <<0, 0>>}

jit_board(a, t) ==
    LET g == GameBoy_new(NoBootRom, JitCartridge)
        r == write(write(write(g, 49152, 195).g, 49153, 88).g, 49154, 1).g
        w == write(write(write(r, 65286, 252).g, 65285, t[2]).g, 65287, t[1]).g
    IN [w EXCEPT !.cpu = [pc |-> g.cpu.pc, state |-> "Running", a |-> a, z |-> FALSE]]

InitJit ==
    /\ \E a \in JitCounts : \E t \in JitTimers : \E g \in {jit_board(a, t)} :
          gb = g /\ obs = [jit_obs_init EXCEPT !.start = g.clock_count]
    /\ debug_build \in BOOLEAN
    /\ jit = JitCompiler_new

JitInterpretBlock ==
    /\ ~obs.panicked /\ gb.clock_count < obs.start + MaxJitClock
    /\ \E r \in {interpret_block(jit, gb)} : \E dead \in {debug_build /\ r.dbg} : \E a \in {Address_from_pc(curr_bank(gb.cartridge), gb.cpu.pc).address} :
          /\ gb' = IF dead THEN gb ELSE r.g
          /\ jit' = r.jit
          /\ obs' = [obs EXCEPT !.op = "interpret_block", !.panicked = dead, !.pc = gb.cpu.pc, !.state = gb.cpu.state, !.start_clock = gb.clock_count,
                                !.path = r.path, !.ops = r.ops, !.next_interrupt = r.next_interrupt, !.has_block = r.has_block, !.block = r.block,
                                !.compiled = r.compiled,
                                !.compiles = IF r.compiled THEN [x \in (DOMAIN @) \cup {a} |-> IF x \in DOMAIN @ THEN @[x] + (IF x = a THEN 1 ELSE 0) ELSE 1] ELSE @]
    /\ UNCHANGED debug_build

NextJit == JitInterpretBlock

SpecJit == InitJit /\ [][NextJit]_vars

\* the condition under which interpret_block runs the compiled block, on what the observer kept of the call
block_runs(o) == o.has_block /\ o.state = "Running" /\ o.start_clock + o.block.max_clock_cycles + 4 < o.next_interrupt

\* C40: interpret_block runs the compiled block exactly when there is a block for the PC, the CPU is Running and
\* clock_count + max_clock_cycles + 4 < next_interrupt; the block advances clock_count by 1..max_clock_cycles
\* (the debug assertions hold), so clock_count stays below the next interrupt clock; otherwise the interpreter
\* runs instructions until one that jumps or one that leaves the CPU not Running; a block is compiled only
\* for an address that has none, at most once per address, and the blocks compiled stay as they are
C40_Step ==
    obs'.op = "interpret_block" =>
        /\ ~obs'.panicked
        /\ (obs'.path = "block") <=> block_runs(obs')
        /\ obs'.path = "block" =>
              /\ (gb'.clock_count - gb.clock_count) \in 1..obs'.block.max_clock_cycles
              /\ gb'.clock_count < obs'.next_interrupt
        /\ obs'.path # "block" =>
              /\ obs'.path = "interpreter" /\ Len(obs'.ops) >= 1
              /\ \A k \in 1..Len(obs'.ops) :
                    (k < Len(obs'.ops)) <=> (~obs'.ops[k].have_jump /\ obs'.ops[k].state = "Running")
        /\ obs'.compiled <=> (obs'.has_block /\ <<0, gb.cpu.pc>> \notin DOMAIN jit.blocks)
        /\ \A a \in DOMAIN jit.blocks : a \in DOMAIN jit'.blocks /\ jit'.blocks[a] = jit.blocks[a]
        /\ \A a \in DOMAIN obs'.compiles : obs'.compiles[a] <= 1
        /\ obs'.has_block => obs'.block = jit'.blocks[<<0, gb.cpu.pc>>]

=============================================================================
